---- MODULE Spec2Model ----
(***************************************************************************)
(* Model of the pipeline DSL interpreter (executor.py, ast_nodes.py).      *)
(*                                                                         *)
(* The state is the PipelineContext that run_pipeline threads through the  *)
(* nodes, the file system the nodes read and write, and the outcome of     *)
(* run_pipeline (running / returned / raised).  Every node class has a     *)
(* pure operator <Class>Execute that maps (node, world) to a result record *)
(* and an action that lets the executor dispatch one such node.            *)
(*                                                                         *)
(* Strings whose characters matter (paths, variable names and values,      *)
(* text with $references) are sequences of one-character strings.          *)
(***************************************************************************)
EXTENDS Integers, Sequences, FiniteSets, TLC

VARIABLES
    commands,   \* the nodes the pipeline being run is made of
    context,    \* the PipelineContext object (fields and dynamic attributes)
    fs,         \* the file system: canonical path -> file
    status,     \* "running" | "chunks" | "post" | "returned" | "raised", and
                \* for main "start" | "read" | "exited"
    raised,     \* the exception that left run_pipeline (NoExc if none)
    returned,   \* the value run_pipeline returned
    pc,         \* number of nodes of the pipeline the executor has passed
    chunked,    \* chunked mode: chunk_phase, the chunks to come, chunks_out
    last,       \* result of the last execute call of the executor (history)
    main        \* main(): the file it was given, its lines, its nodes, its exit code

vars == <<commands, context, fs, status, raised, returned, pc, chunked, last, main>>

(***************************************************************************)
(* Bounds of the model.                                                    *)
(***************************************************************************)
MaxNodes == 4       \* nodes of a pipeline
MaxBody == 2        \* commands in a try body
MaxChunkPhase == 1  \* nodes of the chunk phase of a chunked pipeline

(***************************************************************************)
(* Optional values.  Python's None, and an attribute that was never        *)
(* assigned on the object, are distinct from every value.                  *)
(***************************************************************************)
None == [tag |-> "None"]
Absent == [tag |-> "absent"]
Some(v) == [tag |-> "val", v |-> v]
IsVal(o) == o.tag = "val"

(***************************************************************************)
(* Character-level strings.                                                *)
(***************************************************************************)
StartsWith(s, p) == Len(p) <= Len(s) /\ SubSeq(s, 1, Len(p)) = p

Digits == {"0", "1", "2", "3", "4", "5", "6", "7", "8", "9"}

Letters == {"a", "b", "c", "d", "e", "f", "g", "h", "i", "j", "k", "l", "m", "n",
            "o", "p", "q", "r", "s", "t", "u", "v", "w", "x", "y", "z", "_"}

\* \w of the regular expression in _substitute_vars
WordChars == Letters \cup Digits

DigitVal(c) ==
    CASE c = "0" -> 0 [] c = "1" -> 1 [] c = "2" -> 2 [] c = "3" -> 3
      [] c = "4" -> 4 [] c = "5" -> 5 [] c = "6" -> 6 [] c = "7" -> 7
      [] c = "8" -> 8 [] c = "9" -> 9

RECURSIVE DecimalValue(_)
DecimalValue(s) ==
    IF s = <<>> THEN 0
    ELSE 10 * DecimalValue(SubSeq(s, 1, Len(s) - 1)) + DigitVal(s[Len(s)])

Quotes == {"\"", "'"}
Spaces == {" "}

\* str.strip(chars): drops every leading and trailing character in chars
RECURSIVE StripChars(_, _)
StripChars(s, chars) ==
    IF s = <<>> THEN s
    ELSE IF s[1] \in chars THEN StripChars(Tail(s), chars)
    ELSE IF s[Len(s)] \in chars THEN StripChars(SubSeq(s, 1, Len(s) - 1), chars)
    ELSE s

(***************************************************************************)
(* Exceptions.  msg is the message as a sequence of text fragments.        *)
(***************************************************************************)
NoExc == [cls |-> "none", msg |-> <<>>]
Exc(cls, msg) == [cls |-> cls, msg |-> msg]
Raised(e) == e.cls # "none"

\* str(exc): a KeyError shows the repr of its message
StrOf(exc) == IF exc.cls = "KeyError" THEN <<"'">> \o exc.msg \o <<"'">> ELSE exc.msg

\* reading an attribute the object does not have
AttributeError(name) ==
    Exc("AttributeError", <<"'PipelineContext' object has no attribute", name>>)

(***************************************************************************)
(* Paths.  os.path.realpath(os.path.abspath(p)): a relative path is taken  *)
(* from the working directory, "." and empty segments are dropped and ".." *)
(* removes the segment before it.  The file system of the model holds no   *)
(* symbolic links.                                                         *)
(***************************************************************************)
Cwd == <<"/", "s">>

RECURSIVE SplitPath(_, _, _)
SplitPath(s, cur, acc) ==
    IF s = <<>> THEN (IF cur = <<>> THEN acc ELSE Append(acc, cur))
    ELSE IF s[1] = "/"
         THEN SplitPath(Tail(s), <<>>, IF cur = <<>> THEN acc ELSE Append(acc, cur))
         ELSE SplitPath(Tail(s), Append(cur, s[1]), acc)

RECURSIVE NormSegments(_, _)
NormSegments(segs, acc) ==
    IF segs = <<>> THEN acc
    ELSE IF segs[1] = <<".">> THEN NormSegments(Tail(segs), acc)
    ELSE IF segs[1] = <<".", ".">>
         THEN NormSegments(Tail(segs),
                           IF acc = <<>> THEN acc ELSE SubSeq(acc, 1, Len(acc) - 1))
         ELSE NormSegments(Tail(segs), Append(acc, segs[1]))

RECURSIVE JoinPath(_)
JoinPath(segs) ==
    IF segs = <<>> THEN <<>> ELSE <<"/">> \o segs[1] \o JoinPath(Tail(segs))

Canonical(path) ==
    LET abs == IF path # <<>> /\ path[1] = "/" THEN path ELSE Cwd \o <<"/">> \o path
        segs == NormSegments(SplitPath(abs, <<>>, <<>>), <<>>)
    IN  IF segs = <<>> THEN <<"/">> ELSE JoinPath(segs)

\* os.path.dirname
RECURSIVE DirName(_)
DirName(path) ==
    IF path = <<>> THEN <<>>
    ELSE IF path[Len(path)] = "/"
         THEN (IF Len(path) = 1 THEN path ELSE SubSeq(path, 1, Len(path) - 1))
         ELSE DirName(SubSeq(path, 1, Len(path) - 1))

EndsWith(s, p) == Len(p) <= Len(s) /\ SubSeq(s, Len(s) - Len(p) + 1, Len(s)) = p

\* a sandbox check that compares the paths as they are written, ".." included
CheckPathPrefix(path, c) ==
    IF c.sandbox_dir = None THEN NoExc
    ELSE LET abs_path == IF path # <<>> /\ path[1] = "/" THEN path ELSE Cwd \o <<"/">> \o path
         IN  IF abs_path = c.sandbox_dir.v \/ StartsWith(abs_path, c.sandbox_dir.v \o <<"/">>)
             THEN NoExc
             ELSE Exc("PermissionError", <<"Access denied: outside the sandbox">>)
\* a sandbox check that compares by prefix only, without the separator
CheckPathSibling(path, c) ==
    IF c.sandbox_dir = None THEN NoExc
    ELSE LET abs_path == Canonical(path)
             abs_sandbox == Canonical(c.sandbox_dir.v)
         IN  IF StartsWith(abs_path, abs_sandbox)
             THEN NoExc
             ELSE Exc("PermissionError", <<"Access denied: outside the sandbox">>)
\* _check_path_sandbox: the exception it raises, NoExc when the path is allowed
CheckPathSandbox(path, c) ==
    IF c.sandbox_dir = None THEN NoExc
    ELSE LET abs_path == Canonical(path)
             abs_sandbox == Canonical(c.sandbox_dir.v)
         IN  IF abs_path = abs_sandbox \/ StartsWith(abs_path, abs_sandbox \o <<"/">>)
             THEN NoExc
             ELSE Exc("PermissionError", <<"Access denied: outside the sandbox">>)

(***************************************************************************)
(* Variables: context.variables maps a name to a str (set, env) or to a    *)
(* float (the start time of a timer).                                      *)
(***************************************************************************)
Str(s) == [kind |-> "str", s |-> s]
Float == [kind |-> "float", s |-> <<>>]
Put(variables, name, value) == (name :> value) @@ variables
Del(variables, name) == [k \in DOMAIN variables \ {name} |-> variables[k]]

RECURSIVE WordRun(_)
WordRun(s) ==
    IF s = <<>> \/ s[1] \notin WordChars THEN <<>> ELSE <<s[1]>> \o WordRun(Tail(s))

\* _substitute_vars: re.sub(r'\$(\w+)', ...) from left to right; [exc, s]
RECURSIVE SubstituteVars(_, _)
SubstituteVars(text, c) ==
    IF text = <<>> THEN [exc |-> NoExc, s |-> <<>>]
    ELSE IF text[1] = "$" /\ WordRun(Tail(text)) # <<>>
    THEN LET var_name == WordRun(Tail(text))
             rest == SubSeq(text, Len(var_name) + 2, Len(text))
         IN  IF var_name \notin DOMAIN c.variables
             THEN [exc |-> Exc("KeyError", <<"variable is not defined">>), s |-> <<>>]
             ELSE IF c.variables[var_name].kind # "str"
             THEN [exc |-> Exc("TypeError", <<"expected str instance">>), s |-> <<>>]
             ELSE LET r == SubstituteVars(rest, c)
                  IN  IF Raised(r.exc) THEN r
                      ELSE [exc |-> NoExc, s |-> c.variables[var_name].s \o r.s]
    ELSE LET r == SubstituteVars(Tail(text), c)
         IN  IF Raised(r.exc) THEN r ELSE [exc |-> NoExc, s |-> <<text[1]>> \o r.s]

\* _resolve_value: [exc, s]
ResolveValue(value, c) ==
    LET stripped == StripChars(value, Spaces)
    IN  IF stripped # <<>> /\ stripped[1] = "$"
        THEN LET var_name == Tail(stripped)
             IN  IF var_name \notin DOMAIN c.variables
                 THEN [exc |-> Exc("KeyError", <<"variable is not defined">>), s |-> <<>>]
                 ELSE [exc |-> NoExc, s |-> c.variables[var_name].s]
        ELSE [exc |-> NoExc, s |-> stripped]

\* the null cell of a table (the cells of the model are integers)
Null == 0 - 1000

\* _coerce_rhs: float(cleaned) when it parses, else the cleaned string (n is
\* what the cells of the model, which hold numbers, are compared with)
IsNumeral(s) == s # <<>> /\ \A i \in 1..Len(s) : s[i] \in Digits
CoerceRhs(raw) ==
    LET cleaned == StripChars(raw, Quotes)
    IN  IF IsNumeral(cleaned) THEN [num |-> TRUE, n |-> DecimalValue(cleaned)]
        ELSE [num |-> FALSE, n |-> Null, s |-> cleaned]

(***************************************************************************)
(* Tables: what a polars LazyFrame denotes.  cols are the column names in  *)
(* order, dtypes their types, rows the rows in order, each row a sequence  *)
(* of cells aligned with cols.  Cells are integers; Null is the null cell. *)
(***************************************************************************)

Table(cols, dtypes, rows) == [cols |-> cols, dtypes |-> dtypes, rows |-> rows]

Range(f) == {f[i] : i \in DOMAIN f}
Min2(a, b) == IF a <= b THEN a ELSE b
Schema(t) == Range(t.cols)
ColIndex(t, c) == CHOOSE i \in 1..Len(t.cols) : t.cols[i] = c
Cell(t, row, c) == row[ColIndex(t, c)]
Missing(cols, t) == {i \in 1..Len(cols) : cols[i] \notin Schema(t)}

Reverse(s) == [i \in 1..Len(s) |-> s[Len(s) + 1 - i]]

\* Row orders an operation without a guaranteed order may produce: the model
\* lets each such operation return its rows as computed or reversed.
Orders == {"keep", "reverse"}
Reorder(rows, order) == IF order = "reverse" THEN Reverse(rows) ELSE rows

RECURSIVE Dedup(_, _)
Dedup(s, acc) ==
    IF s = <<>> THEN acc
    ELSE Dedup(Tail(s), IF s[1] \in Range(acc) THEN acc ELSE Append(acc, s[1]))

RECURSIVE SumSeq(_)
SumSeq(s) == IF s = <<>> THEN 0 ELSE s[1] + SumSeq(Tail(s))

RECURSIVE MinSeq(_)
MinSeq(s) == IF Len(s) = 1 THEN s[1] ELSE Min2(s[1], MinSeq(Tail(s)))

RECURSIVE MaxSeq(_)
MaxSeq(s) ==
    IF Len(s) = 1 THEN s[1]
    ELSE LET m == MaxSeq(Tail(s)) IN IF s[1] >= m THEN s[1] ELSE m

\* _OPERATORS
Operators == {">=", "<=", "!=", "==", ">", "<"}

\* _apply_polars_filter on one cell: a comparison with null is not true
Compare(x, op, rhs) ==
    /\ x # Null
    /\ rhs # Null
    /\ CASE op = ">"  -> x > rhs
         [] op = "<"  -> x < rhs
         [] op = ">=" -> x >= rhs
         [] op = "<=" -> x <= rhs
         [] op = "==" -> x = rhs
         [] op = "!=" -> x # rhs

\* LazyFrame.filter(col op rhs)
FilterRows(t, c, op, rhs) ==
    [t EXCEPT !.rows = SelectSeq(t.rows, LAMBDA r : Compare(Cell(t, r, c), op, rhs))]

\* LazyFrame.select(cols)
Project(t, cols) ==
    Table(cols,
          [i \in 1..Len(cols) |-> t.dtypes[ColIndex(t, cols[i])]],
          [k \in 1..Len(t.rows) |->
              [i \in 1..Len(cols) |-> Cell(t, t.rows[k], cols[i])]])

\* LazyFrame.drop(cols)
DropCols(t, cols) ==
    Project(t, SelectSeq(t.cols, LAMBDA c : c \notin Range(cols)))

\* LazyFrame.limit(n)
Limit(t, n) == [t EXCEPT !.rows = SubSeq(t.rows, 1, Min2(n, Len(t.rows)))]

\* LazyFrame.unique(): the order of the remaining rows is not guaranteed
Unique(t, order) == [t EXCEPT !.rows = Reorder(Dedup(t.rows, <<>>), order)]

\* DataFrame.sample(n): n rows in random order
Sample(t, n, order) ==
    [t EXCEPT !.rows = SubSeq(Reorder(t.rows, order), 1, Min2(n, Len(t.rows)))]

\* lexicographic comparison of two rows on the sort keys
RECURSIVE RowBefore(_, _, _, _, _)
RowBefore(t, r1, r2, cols, descending) ==
    IF cols = <<>> THEN FALSE
    ELSE LET x == Cell(t, r1, cols[1])
             y == Cell(t, r2, cols[1])
         IN  IF x = y THEN RowBefore(t, r1, r2, Tail(cols), Tail(descending))
             ELSE IF descending[1] THEN x > y ELSE x < y

RECURSIVE InsertSorted(_, _, _, _, _)
InsertSorted(t, sorted, r, cols, descending) ==
    IF sorted = <<>> THEN <<r>>
    ELSE IF RowBefore(t, r, sorted[1], cols, descending)
         THEN <<r>> \o sorted
         ELSE <<sorted[1]>> \o InsertSorted(t, Tail(sorted), r, cols, descending)

RECURSIVE SortRows(_, _, _, _)
SortRows(t, rows, cols, descending) ==
    IF rows = <<>> THEN <<>>
    ELSE InsertSorted(t, SortRows(t, SubSeq(rows, 1, Len(rows) - 1), cols, descending),
                      rows[Len(rows)], cols, descending)

\* LazyFrame.sort(cols, descending): rows that tie may come in either order
Sort(t, cols, descending, order) ==
    [t EXCEPT !.rows = SortRows(t, Reorder(t.rows, order), cols, descending)]

\* LazyFrame.rename({old: new})
Rename(t, old, new) ==
    [t EXCEPT !.cols = [i \in 1..Len(t.cols) |-> IF t.cols[i] = old THEN new ELSE t.cols[i]]]

\* LazyFrame.with_columns(expr.alias(name)): replaces the column, or appends it
WithColumn(t, name, dtype, cells) ==
    IF name \in Schema(t)
    THEN LET k == ColIndex(t, name)
         IN  Table(t.cols, [t.dtypes EXCEPT ![k] = dtype],
                   [j \in 1..Len(t.rows) |-> [t.rows[j] EXCEPT ![k] = cells[j]]])
    ELSE Table(Append(t.cols, name), Append(t.dtypes, dtype),
               [j \in 1..Len(t.rows) |-> Append(t.rows[j], cells[j])])

Column(t, c) == [j \in 1..Len(t.rows) |-> Cell(t, t.rows[j], c)]
NonNull(cells) == SelectSeq(cells, LAMBDA x : x # Null)

\* one aggregation expression over the cells of a group
Aggregate(fn, cells) ==
    IF fn = "len" THEN Len(cells)
    ELSE LET xs == NonNull(cells)
         IN  IF fn = "sum" THEN SumSeq(xs)
             ELSE IF xs = <<>> THEN Null
             ELSE CASE fn = "mean" -> SumSeq(xs) \div Len(xs)
                    [] fn = "min"  -> MinSeq(xs)
                    [] fn = "max"  -> MaxSeq(xs)

AggDtype(fn, t, c) ==
    IF fn = "len" THEN "UInt32" ELSE IF fn = "mean" THEN "Float64"
    ELSE t.dtypes[ColIndex(t, c)]

\* LazyFrame.select(exprs) with aggregating expressions: one row.
\* exprs is a sequence of [fn, col, name].
SelectAgg(t, exprs) ==
    Table([i \in 1..Len(exprs) |-> exprs[i].name],
          [i \in 1..Len(exprs) |-> AggDtype(exprs[i].fn, t, exprs[i].col)],
          << [i \in 1..Len(exprs) |->
                Aggregate(exprs[i].fn,
                          IF exprs[i].fn = "len" THEN t.rows ELSE Column(t, exprs[i].col))] >>)

\* LazyFrame.group_by(group_cols).agg(exprs): one row per distinct key, in
\* no guaranteed order
GroupAgg(t, group_cols, exprs, order) ==
    LET KeyOf(r) == [i \in 1..Len(group_cols) |-> Cell(t, r, group_cols[i])]
        keys == Dedup([j \in 1..Len(t.rows) |-> KeyOf(t.rows[j])], <<>>)
        Members(k) == SelectSeq(t.rows, LAMBDA r : KeyOf(r) = k)
        Cells(k, e) ==
            IF e.fn = "len" THEN Members(k)
            ELSE [j \in 1..Len(Members(k)) |-> Cell(t, Members(k)[j], e.col)]
    IN  Table(group_cols \o [i \in 1..Len(exprs) |-> exprs[i].name],
              [i \in 1..Len(group_cols) |-> t.dtypes[ColIndex(t, group_cols[i])]]
                 \o [i \in 1..Len(exprs) |-> AggDtype(exprs[i].fn, t, exprs[i].col)],
              Reorder([n \in 1..Len(keys) |->
                         keys[n] \o [i \in 1..Len(exprs) |->
                                        Aggregate(exprs[i].fn, Cells(keys[n], exprs[i]))]],
                      order))

\* pl.concat([t, other], how="diagonal"): union of the columns, null where a
\* frame lacks a column
ConcatDiagonal(t, other) ==
    LET cols == t.cols \o SelectSeq(other.cols, LAMBDA c : c \notin Schema(t))
        DtypeOf(c) == IF c \in Schema(t) THEN t.dtypes[ColIndex(t, c)]
                      ELSE other.dtypes[ColIndex(other, c)]
        Widen(u, r) == [i \in 1..Len(cols) |->
                          IF cols[i] \in Schema(u) THEN Cell(u, r, cols[i]) ELSE Null]
    IN  Table(cols, [i \in 1..Len(cols) |-> DtypeOf(cols[i])],
              [j \in 1..Len(t.rows) |-> Widen(t, t.rows[j])]
                 \o [j \in 1..Len(other.rows) |-> Widen(other, other.rows[j])])

RECURSIVE Flatten(_)
Flatten(ss) == IF ss = <<>> THEN <<>> ELSE ss[1] \o Flatten(Tail(ss))

\* LazyFrame.join(right, on=key, how, coalesce): the right frame's other
\* columns follow the left frame's, renamed with the suffix _right on a clash
Join(t, right, key, how, order) ==
    LET rcols == SelectSeq(right.cols, LAMBDA c : c # key)
        RName(c) == IF c \in Schema(t) THEN c \o <<"_", "r", "i", "g", "h", "t">> ELSE c
        cols == t.cols \o [i \in 1..Len(rcols) |-> RName(rcols[i])]
        dtypes == t.dtypes \o [i \in 1..Len(rcols) |-> right.dtypes[ColIndex(right, rcols[i])]]
        RPart(r) == [i \in 1..Len(rcols) |-> Cell(right, r, rcols[i])]
        RNulls == [i \in 1..Len(rcols) |-> Null]
        Matches(l) == SelectSeq(right.rows,
                        LAMBDA r : Cell(t, l, key) # Null /\ Cell(right, r, key) = Cell(t, l, key))
        Matched(r) == \E j \in 1..Len(t.rows) :
                        Cell(t, t.rows[j], key) # Null /\ Cell(t, t.rows[j], key) = Cell(right, r, key)
        LeftRows(l) ==
            IF Matches(l) = <<>>
            THEN (IF how \in {"left", "full"} THEN << l \o RNulls >> ELSE <<>>)
            ELSE [n \in 1..Len(Matches(l)) |-> l \o RPart(Matches(l)[n])]
        \* a right row without a match: left columns null, the key coalesced
        Orphan(r) == [i \in 1..Len(t.cols) |->
                        IF t.cols[i] = key THEN Cell(right, r, key) ELSE Null] \o RPart(r)
        orphans == IF how \in {"right", "full"}
                   THEN LET un == SelectSeq(right.rows, LAMBDA r : ~Matched(r))
                        IN  [n \in 1..Len(un) |-> Orphan(un[n])]
                   ELSE <<>>
        kept == SelectSeq(t.rows, LAMBDA l : how # "right" \/ Matches(l) # <<>>)
    IN  Table(cols, dtypes,
              Reorder(Flatten([j \in 1..Len(kept) |-> LeftRows(kept[j])]) \o orphans, order))

(***************************************************************************)
(* The PipelineContext.  The dataclass declares df, grouped, variables and *)
(* sandbox_dir; the nodes read and assign the attributes lf, group_by_cols *)
(* and streaming, which the object does not have until a node assigns      *)
(* them.                                                                   *)
(***************************************************************************)
PipelineContext(df, variables, sandbox_dir) ==
    [df |-> df, grouped |-> None, variables |-> variables, sandbox_dir |-> sandbox_dir,
     lf |-> Absent, group_by_cols |-> Absent, streaming |-> Absent]

\* a world is what a node's execute can read and change
World(c, files) == [ctx |-> c, fs |-> files]

\* an access to the file system, with the sandbox in force when it happens
IO(op, path, c) == [op |-> op, path |-> path, sandbox |-> c.sandbox_dir]

(***************************************************************************)
(* The result of one execute call: the node, the context before and after, *)
(* the file system after, the exception that left the call, the file       *)
(* accesses and the lines printed by the node itself, and for a node that  *)
(* runs other nodes (try, include) the results of those calls.             *)
(***************************************************************************)
Result(self, w, c2, fs2, exc, io, out) ==
    [node |-> self, pre |-> w.ctx, ctx |-> c2, fs |-> fs2, exc |-> exc, io |-> io,
     out |-> out, body |-> <<>>, handler |-> <<>>, invoked |-> 0]

Raise(self, w, exc) == Result(self, w, w.ctx, w.fs, exc, <<>>, <<>>)
RaiseAfter(self, w, exc, io) == Result(self, w, w.ctx, w.fs, exc, io, <<>>)
Return(self, w, c2) == Result(self, w, c2, w.fs, NoExc, <<>>, <<>>)

\* a rebinding that keeps the pending grouping
RebindKeepsGrouping(c, t) == [c EXCEPT !.lf = Some(t)]
\* context.lf = t; context.group_by_cols = None
Rebind(c, t) == [c EXCEPT !.lf = Some(t), !.group_by_cols = None]

\* the test "context.lf is None" that opens most execute methods, and the
\* error it raises
NoDataLoaded(c, verb) ==
    IF c.lf = Absent THEN AttributeError("lf")
    ELSE IF c.lf = None THEN Exc("RuntimeError", <<verb, "no data loaded - use 'source' first">>)
    ELSE NoExc

\* polars resolves a plan when it is asked for its schema or its rows, and
\* refuses one whose output names repeat
Resolves(t) == \A i, j \in DOMAIN t.cols : t.cols[i] = t.cols[j] => i = j
DuplicateError == Exc("DuplicateError", <<"the name is duplicate">>)

\* context.lf.collect_schema() and context.lf.collect()
Resolve(c) == IF Resolves(c.lf.v) THEN NoExc ELSE DuplicateError

\* the test "context.lf is None" and the collect_schema() or collect() that
\* follows it at once
Unresolved(c, verb) ==
    IF Raised(NoDataLoaded(c, verb)) THEN NoDataLoaded(c, verb) ELSE Resolve(c)

ColumnNotFound(verb) == Exc("KeyError", <<verb, "column not found">>)

(***************************************************************************)
(* Files.  A data file holds a table in the format its extension names; a  *)
(* pipeline file holds commands (here: the nodes parse_lines gives).       *)
(***************************************************************************)
\* os.path.splitext(path)[1].lower()
RECURSIVE Ext(_)
Ext(path) ==
    IF path = <<>> \/ path[Len(path)] = "/" THEN <<>>
    ELSE IF path[Len(path)] = "." THEN <<".">>
    ELSE LET e == Ext(SubSeq(path, 1, Len(path) - 1))
         IN  IF e = <<>> THEN <<>> ELSE Append(e, path[Len(path)])

DotCsv == <<".", "c", "s", "v">>
DotPpl == <<".", "p", "p", "l">>
DotJson == <<".", "j", "s", "o", "n">>
DotNdjson == <<".", "n", "d", "j", "s", "o", "n">>
DotParquet == <<".", "p", "a", "r", "q", "u", "e", "t">>

ReadFormat(path) ==
    IF Ext(path) = DotParquet THEN "parquet"
    ELSE IF Ext(path) \in {DotJson, DotNdjson} THEN "ndjson"
    ELSE "csv"

WriteFormat(path) ==
    IF Ext(path) = DotJson THEN "json"
    ELSE IF Ext(path) = DotParquet THEN "parquet"
    ELSE "csv"

DataFile(format, t) == [kind |-> "data", format |-> format, table |-> t]
PplFile(lines) == [kind |-> "ppl", lines |-> lines]

\* os.path.exists
Exists(path, files) == Canonical(path) \in DOMAIN files
FileAt(path, files) == files[Canonical(path)]

(***************************************************************************)
(* Data loading nodes.                                                     *)
(***************************************************************************)
SourceNodeExecute(self, w) ==
    LET c == w.ctx
        sub == SubstituteVars(self.file_path, c)
        path == sub.s
    IN  IF Raised(sub.exc) THEN Raise(self, w, sub.exc)
        ELSE IF Raised(CheckPathSandbox(path, c)) THEN Raise(self, w, CheckPathSandbox(path, c))
        ELSE IF ~Exists(path, w.fs)
             THEN Raise(self, w, Exc("FileNotFoundError", <<"Source file not found">>))
        ELSE LET c1 == [c EXCEPT !.lf = Some(FileAt(path, w.fs).table)]
                 c2 == IF self.chunk_size # None THEN [c1 EXCEPT !.streaming = Some(TRUE)] ELSE c1
             IN  Result(self, w, [c2 EXCEPT !.group_by_cols = None], w.fs, NoExc,
                        <<IO("read", path, c)>>, <<>>)

BaseName(path) == SubSeq(path, Len(DirName(path)) + 2, Len(path))

\* order of str: the model's characters in code-point order
CodePoints == <<"$", "*", "-", ".", "/", "0", "1", "2", "3", "4", "5", "6", "7", "8",
                "9", "_", "a", "b", "c", "d", "e", "f", "g", "h", "i", "j", "k", "l",
                "m", "n", "o", "p", "q", "r", "s", "t", "u", "v", "w", "x", "y", "z">>
Ord(ch) == CHOOSE i \in 1..Len(CodePoints) : CodePoints[i] = ch

RECURSIVE StrLess(_, _)
StrLess(a, b) ==
    IF b = <<>> THEN FALSE
    ELSE IF a = <<>> THEN TRUE
    ELSE IF a[1] = b[1] THEN StrLess(Tail(a), Tail(b))
    ELSE Ord(a[1]) < Ord(b[1])

RECURSIVE SortedStrings(_)
SortedStrings(S) ==
    IF S = {} THEN <<>>
    ELSE LET m == CHOOSE x \in S : \A y \in S \ {x} : StrLess(x, y)
         IN  <<m>> \o SortedStrings(S \ {m})

\* sorted(glob.glob(pattern)) for a pattern <dir>/*<suffix> or a plain path
Glob(pattern, files) ==
    LET dir == DirName(pattern)
        base == BaseName(pattern)
    IN  IF base # <<>> /\ base[1] = "*"
        THEN SortedStrings({dir \o <<"/">> \o BaseName(f) :
                             f \in {g \in DOMAIN files :
                                      /\ DirName(g) = Canonical(dir)
                                      /\ EndsWith(g, Tail(base))}})
        ELSE IF Exists(pattern, files) THEN <<pattern>> ELSE <<>>

RECURSIVE ConcatAll(_)
ConcatAll(ts) ==
    IF Len(ts) = 1 THEN ts[1]
    ELSE ConcatDiagonal(ConcatAll(SubSeq(ts, 1, Len(ts) - 1)), ts[Len(ts)])

ForeachNodeExecute(self, w) ==
    LET c == w.ctx
        sub == SubstituteVars(self.pattern, c)
        files == Glob(sub.s, w.fs)
        listed == <<IO("glob", sub.s, c)>>
        denied == {i \in 1..Len(files) : Raised(CheckPathSandbox(files[i], c))}
    IN  IF Raised(sub.exc) THEN Raise(self, w, sub.exc)
        ELSE IF files = <<>>
             THEN RaiseAfter(self, w, Exc("FileNotFoundError", <<"foreach: no files matched">>), listed)
        ELSE IF denied # {}
             THEN RaiseAfter(self, w, CheckPathSandbox(
                      files[CHOOSE i \in denied : \A j \in denied : i <= j], c), listed)
        ELSE Result(self, w,
                    Rebind(c, ConcatAll([i \in 1..Len(files) |-> FileAt(files[i], w.fs).table])),
                    w.fs, NoExc,
                    listed \o [i \in 1..Len(files) |-> IO("read", files[i], c)], <<>>)

(***************************************************************************)
(* Filtering nodes.                                                        *)
(***************************************************************************)
UnsupportedOperator == Exc("ValueError", <<"unsupported operator">>)

FilterNodeExecute(self, w) ==
    LET c == w.ctx
        raw == ResolveValue(self.value, c)
        rhs == CoerceRhs(raw.s)
    IN  IF Raised(Unresolved(c, "filter:")) THEN Raise(self, w, Unresolved(c, "filter:"))
        ELSE IF self.column \notin Schema(c.lf.v) THEN Raise(self, w, ColumnNotFound("filter:"))
        ELSE IF Raised(raw.exc) THEN Raise(self, w, raw.exc)
        ELSE IF self.operator \notin Operators
             THEN Raise(self, w, Exc("ValueError", <<"filter:">> \o UnsupportedOperator.msg))
        ELSE Return(self, w, Rebind(c, FilterRows(c.lf.v, self.column, self.operator, rhs.n)))

\* the mask of conditions[1..n] when `and` binds tighter than `or`
CompoundMaskAndFirst(t, row, conds, logic, n) ==
    \E i \in 1..n, k \in 1..n :
        /\ i <= k
        /\ i = 1 \/ logic[i - 1] = "or"
        /\ k = n \/ logic[k] = "or"
        /\ \A j \in i..(k - 1) : logic[j] = "and"
        /\ \A j \in i..k : Compare(Cell(t, row, conds[j].column), conds[j].operator,
                                   CoerceRhs(conds[j].value).n)

\* the mask of conditions[1..n] combined from left to right
RECURSIVE CompoundMask(_, _, _, _, _)
CompoundMask(t, row, conds, logic, n) ==
    LET this == Compare(Cell(t, row, conds[n].column), conds[n].operator,
                        CoerceRhs(conds[n].value).n)
    IN  IF n = 1 THEN this
        ELSE IF logic[n - 1] = "and"
             THEN CompoundMask(t, row, conds, logic, n - 1) /\ this
             ELSE CompoundMask(t, row, conds, logic, n - 1) \/ this

\* the first exception the loop over the conditions raises
RECURSIVE CompoundCheck(_, _, _)
CompoundCheck(conds, c, i) ==
    IF i > Len(conds) THEN NoExc
    ELSE IF conds[i].column \notin Schema(c.lf.v) THEN ColumnNotFound("filter:")
    ELSE IF Raised(ResolveValue(conds[i].value, c).exc) THEN ResolveValue(conds[i].value, c).exc
    ELSE IF conds[i].operator \notin Operators THEN UnsupportedOperator
    ELSE CompoundCheck(conds, c, i + 1)

CompoundFilterNodeExecute(self, w) ==
    LET c == w.ctx
        t == c.lf.v
        resolved == [i \in 1..Len(self.conditions) |->
                       [self.conditions[i] EXCEPT
                          !.value = ResolveValue(self.conditions[i].value, c).s]]
    IN  IF Raised(Unresolved(c, "filter:")) THEN Raise(self, w, Unresolved(c, "filter:"))
        ELSE IF Raised(CompoundCheck(self.conditions, c, 1))
             THEN Raise(self, w, CompoundCheck(self.conditions, c, 1))
        ELSE IF self.conditions = <<>> THEN Return(self, w, [c EXCEPT !.group_by_cols = None])
        ELSE Return(self, w, Rebind(c,
                 [t EXCEPT !.rows = SelectSeq(t.rows,
                     LAMBDA r : CompoundMask(t, r, resolved, self.logic, Len(resolved)))]))

(***************************************************************************)
(* Column selection / projection nodes.                                    *)
(***************************************************************************)
UnknownColumns(verb) == Exc("KeyError", <<verb, "unknown column(s)">>)

\* a select that clears the pending grouping before it checks its columns
SelectNodeClearsGroupingFirst(self, w) ==
    LET c == w.ctx
    IN  IF Raised(Unresolved(c, "select:")) THEN Raise(self, w, Unresolved(c, "select:"))
        ELSE IF Missing(self.columns, c.lf.v) # {}
             THEN Result(self, w, [c EXCEPT !.group_by_cols = None], w.fs,
                         UnknownColumns("select:"), <<>>, <<>>)
        ELSE Return(self, w, Rebind(c, Project(c.lf.v, self.columns)))
SelectNodeExecute(self, w) ==
    LET c == w.ctx
    IN  IF Raised(Unresolved(c, "select:")) THEN Raise(self, w, Unresolved(c, "select:"))
        ELSE IF Missing(self.columns, c.lf.v) # {} THEN Raise(self, w, UnknownColumns("select:"))
        ELSE Return(self, w, Rebind(c, Project(c.lf.v, self.columns)))

DropNodeExecute(self, w) ==
    LET c == w.ctx
    IN  IF Raised(Unresolved(c, "drop:")) THEN Raise(self, w, Unresolved(c, "drop:"))
        ELSE IF Missing(self.columns, c.lf.v) # {} THEN Raise(self, w, UnknownColumns("drop:"))
        ELSE Return(self, w, Rebind(c, DropCols(c.lf.v, self.columns)))

LimitNodeExecute(self, w) ==
    LET c == w.ctx
    IN  IF Raised(NoDataLoaded(c, "limit:")) THEN Raise(self, w, NoDataLoaded(c, "limit:"))
        ELSE Return(self, w, Rebind(c, Limit(c.lf.v, self.n)))

DistinctNodeExecute(self, w, order) ==
    LET c == w.ctx
    IN  IF Raised(NoDataLoaded(c, "distinct:")) THEN Raise(self, w, NoDataLoaded(c, "distinct:"))
        ELSE Return(self, w, Rebind(c, Unique(c.lf.v, order)))

SampleNodeExecute(self, w, order) ==
    LET c == w.ctx
        t == c.lf.v
    IN  IF Raised(Unresolved(c, "sample:")) THEN Raise(self, w, Unresolved(c, "sample:"))
        ELSE IF self.pct # None
             THEN Return(self, w, Rebind(c, Sample(t, (self.pct.v * Len(t.rows)) \div 100, order)))
             ELSE Return(self, w, Rebind(c, Sample(t, Min2(self.n.v, Len(t.rows)), order)))

(***************************************************************************)
(* Data transformation nodes.                                              *)
(***************************************************************************)
SortNodeExecute(self, w, order) ==
    LET c == w.ctx
    IN  IF Raised(Unresolved(c, "sort:")) THEN Raise(self, w, Unresolved(c, "sort:"))
        ELSE IF Missing(self.columns, c.lf.v) # {} THEN Raise(self, w, UnknownColumns("sort:"))
        ELSE Return(self, w, Rebind(c,
                 Sort(c.lf.v, self.columns,
                      [i \in 1..Len(self.ascending) |-> ~self.ascending[i]], order)))

RenameNodeExecute(self, w) ==
    LET c == w.ctx
    IN  IF Raised(Unresolved(c, "rename:")) THEN Raise(self, w, Unresolved(c, "rename:"))
        ELSE IF self.old_name \notin Schema(c.lf.v) THEN Raise(self, w, ColumnNotFound("rename:"))
        ELSE Return(self, w, Rebind(c, Rename(c.lf.v, self.old_name, self.new_name)))

\* _str_to_polars_expr followed by .alias: the expressions of the model are
\* "x" and "x op y" with op one of + - * and x, y a column name or a numeral.
\* [exc, cells]; an expression without a column evaluates to a Python number,
\* which has no alias method.
ArithmeticOps == {"+", "-", "*"}
EvalExpression(expr_str, t) ==
    LET x == WordRun(expr_str)
        rest == SubSeq(expr_str, Len(x) + 1, Len(expr_str))
        y == IF rest = <<>> THEN <<>> ELSE WordRun(Tail(rest))
        Known(a) == a \in Schema(t) \/ IsNumeral(a)
        Value(a, row) == IF a \in Schema(t) THEN Cell(t, row, a) ELSE DecimalValue(a)
        Apply(row) ==
            IF rest = <<>> THEN Value(x, row)
            ELSE IF Value(x, row) = Null \/ Value(y, row) = Null THEN Null
            ELSE CASE rest[1] = "+" -> Value(x, row) + Value(y, row)
                   [] rest[1] = "-" -> Value(x, row) - Value(y, row)
                   [] rest[1] = "*" -> Value(x, row) * Value(y, row)
        wellFormed == /\ x # <<>>
                      /\ rest = <<>> \/ (/\ rest[1] \in ArithmeticOps
                                         /\ y # <<>>
                                         /\ Len(rest) = Len(y) + 1)
    IN  IF ~wellFormed THEN [exc |-> Exc("SyntaxError", <<"invalid syntax">>), cells |-> <<>>]
        ELSE IF ~Known(x) \/ (rest # <<>> /\ ~Known(y))
             THEN [exc |-> Exc("NameError", <<"name is not defined">>), cells |-> <<>>]
        ELSE IF x \notin Schema(t) /\ (rest = <<>> \/ y \notin Schema(t))
             THEN [exc |-> Exc("AttributeError", <<"object has no attribute 'alias'">>),
                   cells |-> <<>>]
        ELSE [exc |-> NoExc, cells |-> [j \in 1..Len(t.rows) |-> Apply(t.rows[j])]]

AddNodeExecute(self, w) ==
    LET c == w.ctx
        sub == SubstituteVars(self.expression, c)
        ev == EvalExpression(sub.s, c.lf.v)
        Wrapped(e) == Exc("ValueError", <<"add: could not evaluate expression">> \o e.msg)
    IN  IF Raised(NoDataLoaded(c, "add:")) THEN Raise(self, w, NoDataLoaded(c, "add:"))
        ELSE IF Raised(sub.exc) THEN Raise(self, w, Wrapped(sub.exc))
        ELSE IF Raised(Resolve(c)) THEN Raise(self, w, Wrapped(Resolve(c)))
        ELSE IF Raised(ev.exc) THEN Raise(self, w, Wrapped(ev.exc))
        ELSE Return(self, w, Rebind(c, WithColumn(c.lf.v, self.column, "Int64", ev.cells)))

\* _make_val_expr: [exc, cells] (a column, or a numeric literal)
MakeValExpr(v, c, t) ==
    LET r == ResolveValue(v, c)
        resolved == StripChars(r.s, Quotes)
    IN  IF Raised(r.exc) THEN [exc |-> r.exc, cells |-> <<>>]
        ELSE IF resolved \in Schema(t) THEN [exc |-> NoExc, cells |-> Column(t, resolved)]
        ELSE [exc |-> NoExc, cells |-> [j \in 1..Len(t.rows) |-> CoerceRhs(resolved).n]]

AddIfNodeExecute(self, w) ==
    LET c == w.ctx
        t == c.lf.v
        raw == ResolveValue(self.cond_val, c)
        rhs == CoerceRhs(raw.s)
        true_expr == MakeValExpr(self.true_val, c, t)
        false_expr == MakeValExpr(self.false_val, c, t)
    IN  IF Raised(Unresolved(c, "add:")) THEN Raise(self, w, Unresolved(c, "add:"))
        ELSE IF self.cond_col \notin Schema(t) THEN Raise(self, w, ColumnNotFound("add:"))
        ELSE IF Raised(raw.exc) THEN Raise(self, w, raw.exc)
        ELSE IF self.cond_op \notin Operators THEN Raise(self, w, UnsupportedOperator)
        ELSE IF Raised(true_expr.exc) THEN Raise(self, w, true_expr.exc)
        ELSE IF Raised(false_expr.exc) THEN Raise(self, w, false_expr.exc)
        ELSE Return(self, w, Rebind(c, WithColumn(t, self.column, "Float64",
                 [j \in 1..Len(t.rows) |->
                    IF Compare(Cell(t, t.rows[j], self.cond_col), self.cond_op, rhs.n)
                    THEN true_expr.cells[j] ELSE false_expr.cells[j]])))

\* TrimNode, UppercaseNode, LowercaseNode: cast to String, then the string
\* function (which leaves the cells of the model as they are)
StringTransform(self, w, verb) ==
    LET c == w.ctx
        t == c.lf.v
    IN  IF Raised(Unresolved(c, verb)) THEN Raise(self, w, Unresolved(c, verb))
        ELSE IF self.column \notin Schema(t) THEN Raise(self, w, ColumnNotFound(verb))
        ELSE Return(self, w, Rebind(c, WithColumn(t, self.column, "String", Column(t, self.column))))

TrimNodeExecute(self, w) == StringTransform(self, w, "trim:")
UppercaseNodeExecute(self, w) == StringTransform(self, w, "uppercase:")
LowercaseNodeExecute(self, w) == StringTransform(self, w, "lowercase:")

\* _POLARS_TYPE_MAP, with the type names as atoms
PolarsTypeMap ==
    [int |-> "Int64", integer |-> "Int64", float |-> "Float64", double |-> "Float64",
     str |-> "String", string |-> "String", text |-> "String", datetime |-> "Datetime",
     date |-> "Date", bool |-> "Boolean", boolean |-> "Boolean"]

CastNodeExecute(self, w) ==
    LET c == w.ctx
        t == c.lf.v
    IN  IF Raised(Unresolved(c, "cast:")) THEN Raise(self, w, Unresolved(c, "cast:"))
        ELSE IF self.column \notin Schema(t) THEN Raise(self, w, ColumnNotFound("cast:"))
        ELSE IF self.type_name \notin DOMAIN PolarsTypeMap
             THEN Raise(self, w, Exc("ValueError", <<"cast: unknown type">>))
        ELSE Return(self, w, Rebind(c,
                 WithColumn(t, self.column, PolarsTypeMap[self.type_name], Column(t, self.column))))

ReplaceNodeExecute(self, w) ==
    LET c == w.ctx
        t == c.lf.v
        old == CoerceRhs(self.old_value)
        new == CoerceRhs(self.new_value)
    IN  IF Raised(Unresolved(c, "replace:")) THEN Raise(self, w, Unresolved(c, "replace:"))
        ELSE IF self.column \notin Schema(t) THEN Raise(self, w, ColumnNotFound("replace:"))
        ELSE Return(self, w, Rebind(c,
                 WithColumn(t, self.column, t.dtypes[ColIndex(t, self.column)],
                            [j \in 1..Len(t.rows) |->
                               IF Compare(Cell(t, t.rows[j], self.column), "==", old.n)
                               THEN new.n ELSE Cell(t, t.rows[j], self.column)])))

\* str(n) for a cell
RECURSIVE Numeral(_)
Numeral(n) ==
    LET d == <<"0", "1", "2", "3", "4", "5", "6", "7", "8", "9">>
    IN  IF n < 10 THEN <<d[n + 1]>> ELSE Numeral(n \div 10) \o <<d[(n % 10) + 1]>>

CellName(x) == IF x = Null THEN <<"n", "u", "l", "l">> ELSE Numeral(x)

\* DataFrame.pivot(values, index, on, aggregate_function="sum")
Pivot(t, index, on, values) ==
    LET idx == Dedup(Column(t, index), <<>>)
        ons == Dedup(Column(t, on), <<>>)
        Group(i, o) == SelectSeq(t.rows, LAMBDA r : Cell(t, r, index) = i /\ Cell(t, r, on) = o)
        Sum(i, o) == IF Group(i, o) = <<>> THEN Null
                     ELSE Aggregate("sum", [j \in 1..Len(Group(i, o)) |->
                                              Cell(t, Group(i, o)[j], values)])
    IN  Table(<<index>> \o [k \in 1..Len(ons) |-> CellName(ons[k])],
              <<t.dtypes[ColIndex(t, index)]>>
                 \o [k \in 1..Len(ons) |-> t.dtypes[ColIndex(t, values)]],
              [n \in 1..Len(idx) |-> <<idx[n]>> \o [k \in 1..Len(ons) |-> Sum(idx[n], ons[k])]])

PivotNodeExecute(self, w) ==
    LET c == w.ctx
        t == c.lf.v
    IN  IF Raised(Unresolved(c, "pivot:")) THEN Raise(self, w, Unresolved(c, "pivot:"))
        ELSE IF \E col \in {self.index, self.column, self.value} : col \notin Schema(t)
             THEN Raise(self, w, ColumnNotFound("pivot:"))
        ELSE Return(self, w, Rebind(c, Pivot(t, self.index, self.column, self.value)))

(***************************************************************************)
(* Grouping node.                                                          *)
(***************************************************************************)
\* a group by that records the grouping before it looks at the columns
GroupByNodeRecordsFirst(self, w) ==
    IF Raised(Unresolved(w.ctx, "group by:")) THEN Raise(self, w, Unresolved(w.ctx, "group by:"))
    ELSE Result(self, w, [w.ctx EXCEPT !.group_by_cols = Some(self.columns)], w.fs,
                IF Missing(self.columns, w.ctx.lf.v) # {} THEN UnknownColumns("group by:")
                ELSE NoExc, <<>>, <<>>)
\* a group by that leaves the rows of the table in reverse order
GroupByNodeReordersRows(self, w) ==
    LET c == w.ctx
        t == c.lf.v
        n == Len(t.rows)
    IN  IF Raised(Unresolved(c, "group by:")) THEN Raise(self, w, Unresolved(c, "group by:"))
        ELSE IF Missing(self.columns, t) # {} THEN Raise(self, w, UnknownColumns("group by:"))
        ELSE Return(self, w, [c EXCEPT !.group_by_cols = Some(self.columns),
                                       !.lf = Some([t EXCEPT !.rows =
                                                       [i \in 1..n |-> t.rows[n + 1 - i]]])])
GroupByNodeExecute(self, w) ==
    LET c == w.ctx
    IN  IF Raised(Unresolved(c, "group by:")) THEN Raise(self, w, Unresolved(c, "group by:"))
        ELSE IF Missing(self.columns, c.lf.v) # {} THEN Raise(self, w, UnknownColumns("group by:"))
        ELSE Return(self, w, [c EXCEPT !.group_by_cols = Some(self.columns)])

(***************************************************************************)
(* Aggregation nodes.                                                      *)
(***************************************************************************)
AggExpr(fn, col, name) == [fn |-> fn, col |-> col, name |-> name]
CountExpr == AggExpr("len", <<>>, <<"c", "o", "u", "n", "t">>)

CountNodeExecute(self, w, order) ==
    LET c == w.ctx
    IN  IF c.group_by_cols = Absent THEN Raise(self, w, AttributeError("group_by_cols"))
        ELSE IF c.group_by_cols # None
             THEN Return(self, w, Rebind(c, GroupAgg(c.lf.v, c.group_by_cols.v, <<CountExpr>>, order)))
        ELSE IF c.lf # None
             THEN Return(self, w, [c EXCEPT !.lf = Some(IF Resolves(c.lf.v)
                                                        THEN SelectAgg(c.lf.v, <<CountExpr>>)
                                                        ELSE c.lf.v)])
        ELSE Raise(self, w, Exc("RuntimeError", <<"count:", "no data loaded - use 'source' first">>))

CountIfNodeExecute(self, w) ==
    LET c == w.ctx
        t == c.lf.v
        raw == ResolveValue(self.value, c)
        rhs == CoerceRhs(raw.s)
    IN  IF Raised(Unresolved(c, "count if:")) THEN Raise(self, w, Unresolved(c, "count if:"))
        ELSE IF self.column \notin Schema(t) THEN Raise(self, w, ColumnNotFound("count if:"))
        ELSE IF Raised(raw.exc) THEN Raise(self, w, raw.exc)
        ELSE IF self.operator \notin Operators THEN Raise(self, w, UnsupportedOperator)
        ELSE Result(self, w, c, w.fs, NoExc, <<>>,
                    << <<"count if", self.column, self.operator, self.value,
                         Len(FilterRows(t, self.column, self.operator, rhs.n).rows)>> >>)

\* an aggregation that leaves the pending grouping in place
AggNodeKeepsGrouping(self, w, order, verb, agg_fn) ==
    LET c == w.ctx
        agg_expr == AggExpr(agg_fn, self.column, self.column)
    IN  IF Raised(Unresolved(c, verb)) THEN Raise(self, w, Unresolved(c, verb))
        ELSE IF self.column \notin Schema(c.lf.v) THEN Raise(self, w, ColumnNotFound(verb))
        ELSE IF c.group_by_cols = Absent THEN Raise(self, w, AttributeError("group_by_cols"))
        ELSE IF c.group_by_cols # None
             THEN Return(self, w, [c EXCEPT !.lf = Some(GroupAgg(c.lf.v, c.group_by_cols.v,
                                                                <<agg_expr>>, order))])
             ELSE Return(self, w, [c EXCEPT !.lf = Some(SelectAgg(c.lf.v, <<agg_expr>>))])
\* the classes _agg_node builds: SumNode, AvgNode, MinNode, MaxNode
AggNodeExecute(self, w, order, verb, agg_fn) ==
    LET c == w.ctx
        t == c.lf.v
        agg_expr == AggExpr(agg_fn, self.column, self.column)
    IN  IF Raised(Unresolved(c, verb)) THEN Raise(self, w, Unresolved(c, verb))
        ELSE IF self.column \notin Schema(t) THEN Raise(self, w, ColumnNotFound(verb))
        ELSE IF c.group_by_cols = Absent THEN Raise(self, w, AttributeError("group_by_cols"))
        ELSE IF c.group_by_cols # None
             THEN Return(self, w, Rebind(c, GroupAgg(t, c.group_by_cols.v, <<agg_expr>>, order)))
             ELSE Return(self, w, [c EXCEPT !.lf = Some(SelectAgg(t, <<agg_expr>>))])

SumNodeExecute(self, w, order) == AggNodeExecute(self, w, order, "sum:", "sum")
AvgNodeExecute(self, w, order) == AggNodeExecute(self, w, order, "avg:", "mean")
MinNodeExecute(self, w, order) == AggNodeExecute(self, w, order, "min:", "min")
MaxNodeExecute(self, w, order) == AggNodeExecute(self, w, order, "max:", "max")

\* an agg that counts the rows of the whole table when no grouping is pending
MultiAggNodeUngrouped(self, w, order) ==
    IF Raised(NoDataLoaded(w.ctx, "agg:")) THEN Raise(self, w, NoDataLoaded(w.ctx, "agg:"))
    ELSE Return(self, w, [w.ctx EXCEPT !.lf = Some(SelectAgg(w.ctx.lf.v, <<CountExpr>>)),
                                       !.group_by_cols = None])
MultiAggNodeExecute(self, w, order) ==
    LET c == w.ctx
        t == c.lf.v
        FnMap == [sum |-> "sum", avg |-> "mean", min |-> "min", max |-> "max"]
        \* the first spec of the loop that raises
        bad == {i \in 1..Len(self.specs) :
                  /\ self.specs[i].verb # "count"
                  /\ \/ self.specs[i].col = None
                     \/ self.specs[i].col.v \notin Schema(t)}
        first == CHOOSE i \in bad : \A j \in bad : i <= j
        agg_exprs == [i \in 1..Len(self.specs) |->
                        IF self.specs[i].verb = "count" THEN CountExpr
                        ELSE AggExpr(FnMap[self.specs[i].verb], self.specs[i].col.v,
                                     self.specs[i].col.v)]
    IN  IF Raised(NoDataLoaded(c, "agg:")) THEN Raise(self, w, NoDataLoaded(c, "agg:"))
        ELSE IF c.group_by_cols = Absent THEN Raise(self, w, AttributeError("group_by_cols"))
        ELSE IF c.group_by_cols = None
             THEN Raise(self, w, Exc("RuntimeError", <<"agg: must follow 'group by'">>))
        ELSE IF Raised(Resolve(c)) THEN Raise(self, w, Resolve(c))
        ELSE IF bad # {}
             THEN (IF self.specs[first].col = None
                   THEN Raise(self, w, Exc("ValueError", <<"agg: requires a column name">>))
                   ELSE Raise(self, w, ColumnNotFound("agg:")))
        ELSE IF agg_exprs = <<>>
             THEN Raise(self, w, Exc("ValueError", <<"agg: no valid aggregation specs provided">>))
        ELSE Return(self, w, Rebind(c, GroupAgg(t, c.group_by_cols.v, agg_exprs, order)))

(***************************************************************************)
(* Data joining / multi-source nodes.                                      *)
(***************************************************************************)
\* _JOIN_HOW_MAP
JoinHowMap == [inner |-> "inner", left |-> "left", right |-> "right", outer |-> "full"]

JoinNodeExecute(self, w, order) ==
    LET c == w.ctx
        t == c.lf.v
        sub == SubstituteVars(self.file_path, c)
        path == sub.s
        right == FileAt(path, w.fs).table
        scanned == <<IO("read", path, c)>>
        pl_how == IF self.how \in DOMAIN JoinHowMap THEN JoinHowMap[self.how] ELSE self.how
    IN  IF Raised(NoDataLoaded(c, "join:")) THEN Raise(self, w, NoDataLoaded(c, "join:"))
        ELSE IF Raised(sub.exc) THEN Raise(self, w, sub.exc)
        ELSE IF Raised(CheckPathSandbox(path, c)) THEN Raise(self, w, CheckPathSandbox(path, c))
        ELSE IF ~Exists(path, w.fs)
             THEN Raise(self, w, Exc("FileNotFoundError", <<"join: file not found">>))
        ELSE IF Raised(Resolve(c)) THEN Raise(self, w, Resolve(c))
        ELSE IF self.key \notin Schema(t)
             THEN Raise(self, w, Exc("KeyError", <<"join: key not in current data">>))
        ELSE IF self.key \notin Schema(right)
             THEN RaiseAfter(self, w, Exc("KeyError", <<"join: key not found in file">>), scanned)
        ELSE Result(self, w, Rebind(c, Join(t, right, self.key, pl_how, order)),
                    w.fs, NoExc, scanned, <<>>)

MergeNodeExecute(self, w) ==
    LET c == w.ctx
        sub == SubstituteVars(self.file_path, c)
        path == sub.s
    IN  IF Raised(NoDataLoaded(c, "merge:")) THEN Raise(self, w, NoDataLoaded(c, "merge:"))
        ELSE IF Raised(sub.exc) THEN Raise(self, w, sub.exc)
        ELSE IF Raised(CheckPathSandbox(path, c)) THEN Raise(self, w, CheckPathSandbox(path, c))
        ELSE IF ~Exists(path, w.fs)
             THEN Raise(self, w, Exc("FileNotFoundError", <<"merge: file not found">>))
        ELSE Result(self, w, Rebind(c, ConcatDiagonal(c.lf.v, FileAt(path, w.fs).table)),
                    w.fs, NoExc, <<IO("read", path, c)>>, <<>>)

(***************************************************************************)
(* Output / inspection nodes.                                              *)
(***************************************************************************)
SaveNodeExecute(self, w) ==
    LET c == w.ctx
        sub == SubstituteVars(self.file_path, c)
        path == sub.s
        out_dir == DirName(path)
        made == IF out_dir # <<>> THEN <<IO("makedirs", out_dir, c)>> ELSE <<>>
    IN  IF c.lf = Absent THEN Raise(self, w, AttributeError("lf"))
        ELSE IF c.lf = None
             THEN Raise(self, w, Exc("RuntimeError", <<"save: no data to save">>))
        ELSE IF Raised(sub.exc) THEN Raise(self, w, sub.exc)
        ELSE IF Raised(CheckPathSandbox(path, c)) THEN Raise(self, w, CheckPathSandbox(path, c))
        ELSE IF Raised(Resolve(c)) THEN RaiseAfter(self, w, Resolve(c), made)
        ELSE Result(self, w, c,
                    (Canonical(path) :> DataFile(WriteFormat(path), c.lf.v)) @@ w.fs,
                    NoExc, made \o <<IO("write", path, c)>>, <<>>)

\* PrintNode, SchemaNode, InspectNode, HeadNode: print, change nothing
\* a showing command that drops the pending grouping
ShowClearsGrouping(self, w, verb, printed) ==
    IF Raised(Unresolved(w.ctx, verb)) THEN Raise(self, w, Unresolved(w.ctx, verb))
    ELSE Result(self, w, [w.ctx EXCEPT !.group_by_cols = None], w.fs, NoExc, <<>>, <<printed>>)
Show(self, w, verb, printed) ==
    IF Raised(Unresolved(w.ctx, verb)) THEN Raise(self, w, Unresolved(w.ctx, verb))
    ELSE Result(self, w, w.ctx, w.fs, NoExc, <<>>, <<printed>>)

PrintNodeExecute(self, w) == Show(self, w, "print:", <<"print", w.ctx.lf.v>>)
SchemaNodeExecute(self, w) ==
    Show(self, w, "schema:", <<"Schema", w.ctx.lf.v.cols, w.ctx.lf.v.dtypes, Len(w.ctx.lf.v.rows)>>)
InspectNodeExecute(self, w) ==
    Show(self, w, "inspect:", <<"Inspect", w.ctx.lf.v.cols, w.ctx.lf.v.dtypes, Len(w.ctx.lf.v.rows)>>)
\* a head that keeps the rows it shows as the table
HeadNodeKeepsShownRows(self, w) ==
    IF Raised(Unresolved(w.ctx, "head:")) THEN Raise(self, w, Unresolved(w.ctx, "head:"))
    ELSE Result(self, w, [w.ctx EXCEPT !.lf = Some(Limit(w.ctx.lf.v, self.n))], w.fs, NoExc,
                <<>>, << <<"Head", Limit(w.ctx.lf.v, self.n).rows>> >>)
HeadNodeExecute(self, w) == Show(self, w, "head:", <<"Head", Limit(w.ctx.lf.v, self.n).rows>>)

LogNodeExecute(self, w) ==
    LET sub == SubstituteVars(StripChars(self.message, Quotes), w.ctx)
    IN  IF Raised(sub.exc) THEN Raise(self, w, sub.exc)
        ELSE Result(self, w, w.ctx, w.fs, NoExc, <<>>, << <<"[LOG]", sub.s>> >>)

\* a timer whose lap clears the entry, as its stop does
TimerNodeLapClears(self, w) ==
    LET c == w.ctx
        key == <<"_", "_", "t", "i", "m", "e", "r", "_">> \o self.label
    IN  IF self.action = "start"
        THEN Return(self, w, [c EXCEPT !.variables = Put(c.variables, key, Float)])
        ELSE IF self.action \in {"stop", "lap"}
        THEN IF key \notin DOMAIN c.variables
             THEN Raise(self, w, Exc("RuntimeError", <<"timer: no timer is running">>))
             ELSE Result(self, w, [c EXCEPT !.variables = Del(c.variables, key)],
                         w.fs, NoExc, <<>>,
                         << <<IF self.action = "lap" THEN "[LAP]" ELSE "[TIMER]", self.label>> >>)
        ELSE Raise(self, w, Exc("ValueError", <<"timer: unknown action">>))

TimerPrefix == <<"_", "_", "t", "i", "m", "e", "r", "_">>

TimerNodeExecute(self, w) ==
    LET c == w.ctx
        key == TimerPrefix \o self.label
    IN  IF self.action = "start"
        THEN Return(self, w, [c EXCEPT !.variables = Put(c.variables, key, Float)])
        ELSE IF self.action \in {"stop", "lap"}
        THEN IF key \notin DOMAIN c.variables
             THEN Raise(self, w, Exc("RuntimeError", <<"timer: no timer is running">>))
             ELSE IF c.variables[key].kind # "float"
             THEN Raise(self, w, Exc("TypeError", <<"unsupported operand type(s) for -">>))
             ELSE Result(self, w,
                         IF self.action = "stop"
                         THEN [c EXCEPT !.variables = Del(c.variables, key)] ELSE c,
                         w.fs, NoExc, <<>>,
                         << <<IF self.action = "lap" THEN "[LAP]" ELSE "[TIMER]", self.label>> >>)
        ELSE Raise(self, w, Exc("ValueError", <<"timer: unknown action">>))

(***************************************************************************)
(* Quality / validation nodes.                                             *)
(***************************************************************************)
AssertNodeExecute(self, w) ==
    LET c == w.ctx
        t == c.lf.v
        raw == ResolveValue(self.value, c)
        rhs == CoerceRhs(raw.s)
        \* rows of filter(~pass_mask): a null comparison is not counted
        failures == Len(SelectSeq(t.rows, LAMBDA r :
                        /\ Cell(t, r, self.column) # Null
                        /\ ~Compare(Cell(t, r, self.column), self.operator, rhs.n)))
    IN  IF Raised(Unresolved(c, "assert:")) THEN Raise(self, w, Unresolved(c, "assert:"))
        ELSE IF self.column \notin Schema(t) THEN Raise(self, w, ColumnNotFound("assert:"))
        ELSE IF Raised(raw.exc) THEN Raise(self, w, raw.exc)
        ELSE IF self.operator \notin Operators
             THEN Raise(self, w, Exc("ValueError", <<"assert:">> \o UnsupportedOperator.msg))
        ELSE IF failures # 0
             THEN Raise(self, w, Exc("AssertionError", <<"assert: row(s) failed condition">>))
        ELSE Return(self, w, c)

\* str.lower() on the letters of the model
Lower(s) ==
    LET upper == <<"A", "B", "C", "D", "E", "F", "G", "H", "I", "J", "K", "L", "M",
                   "N", "O", "P", "Q", "R", "S", "T", "U", "V", "W", "X", "Y", "Z">>
        lower == <<"a", "b", "c", "d", "e", "f", "g", "h", "i", "j", "k", "l", "m",
                   "n", "o", "p", "q", "r", "s", "t", "u", "v", "w", "x", "y", "z">>
    IN  [i \in 1..Len(s) |->
           IF \E k \in 1..Len(upper) : upper[k] = s[i]
           THEN lower[CHOOSE k \in 1..Len(upper) : upper[k] = s[i]] ELSE s[i]]

\* the strategies of FillNode that are not a literal value
FillStrategies ==
    [mean |-> <<"m", "e", "a", "n">>, median |-> <<"m", "e", "d", "i", "a", "n">>,
     mode |-> <<"m", "o", "d", "e">>, forward |-> <<"f", "o", "r", "w", "a", "r", "d">>,
     backward |-> <<"b", "a", "c", "k", "w", "a", "r", "d">>, drop |-> <<"d", "r", "o", "p">>]

\* fill_null(strategy="forward"): each null takes the last value before it
RECURSIVE ForwardFill(_, _)
ForwardFill(cells, prev) ==
    IF cells = <<>> THEN <<>>
    ELSE LET x == IF cells[1] = Null THEN prev ELSE cells[1]
         IN  <<x>> \o ForwardFill(Tail(cells), x)

\* the column of the table after the fill: s is the strategy, literal the
\* digits of a literal fill value
FillCells(cells, s, literal, order) ==
    LET xs == NonNull(cells)
        Count(v) == Len(SelectSeq(cells, LAMBDA x : x = v))
        modes == {v \in Range(cells) : \A u \in Range(cells) : Count(u) <= Count(v)}
        \* Series.mode()[0]: which of several modes comes first is not fixed
        mode0 == IF order = "keep" THEN CHOOSE v \in modes : \A u \in modes : v <= u
                 ELSE CHOOSE v \in modes : \A u \in modes : u <= v
        Below(v) == Len(SelectSeq(xs, LAMBDA x : x < v))
        median == CHOOSE v \in Range(xs) :
                     /\ Below(v) <= (Len(xs) - 1) \div 2
                     /\ \A u \in Range(xs) : Below(u) <= (Len(xs) - 1) \div 2 => u <= v
        Fill(v) == [j \in 1..Len(cells) |-> IF cells[j] = Null THEN v ELSE cells[j]]
    IN  CASE s = FillStrategies.mean -> Fill(Aggregate("mean", cells))
          [] s = FillStrategies.median -> IF xs = <<>> THEN cells ELSE Fill(median)
          [] s = FillStrategies.mode -> IF cells = <<>> THEN cells ELSE Fill(mode0)
          [] s = FillStrategies.forward -> ForwardFill(cells, Null)
          [] s = FillStrategies.backward -> Reverse(ForwardFill(Reverse(cells), Null))
          [] OTHER -> Fill(DecimalValue(literal))

FillNodeExecute(self, w, order) ==
    LET c == w.ctx
        t == c.lf.v
        col == self.column
        s == Lower(StripChars(self.strategy, Spaces))
        literal == StripChars(self.strategy, Quotes)
    IN  IF Raised(Unresolved(c, "fill:")) THEN Raise(self, w, Unresolved(c, "fill:"))
        ELSE IF col \notin Schema(t) THEN Raise(self, w, ColumnNotFound("fill:"))
        ELSE IF s = FillStrategies.drop
             THEN Return(self, w, Rebind(c,
                      [t EXCEPT !.rows = SelectSeq(t.rows, LAMBDA r : Cell(t, r, col) # Null)]))
        ELSE IF s \notin Range(FillStrategies) /\ ~IsNumeral(literal)
             THEN Raise(self, w, Exc("InvalidOperationError", <<"fill value is not of the column's type">>))
        ELSE Return(self, w, Rebind(c,
                 WithColumn(t, col,
                            IF s \in {FillStrategies.mean, FillStrategies.median} THEN "Float64"
                            ELSE t.dtypes[ColIndex(t, col)],
                            FillCells(Column(t, col), s, literal, order))))

(***************************************************************************)
(* Variable / environment nodes.                                           *)
(***************************************************************************)
Sandbox == <<"s", "a", "n", "d", "b", "o", "x">>

SetNodeExecute(self, w) ==
    LET c == w.ctx
        value == StripChars(self.value, Quotes)
        c1 == [c EXCEPT !.variables = Put(c.variables, self.name, Str(value))]
    IN  Return(self, w, IF self.name = Sandbox THEN [c1 EXCEPT !.sandbox_dir = Some(value)] ELSE c1)

\* os.environ of the process that runs the pipeline
Environ == (<<"e">> :> <<"/", "s", "/", "a", ".", "c", "s", "v">>)

EnvNodeExecute(self, w) ==
    LET c == w.ctx
    IN  IF self.var_name \notin DOMAIN Environ
        THEN Raise(self, w, Exc("RuntimeError", <<"env: environment variable is not set">>))
        ELSE Return(self, w, [c EXCEPT !.variables =
                                 Put(c.variables, self.var_name, Str(Environ[self.var_name]))])

(***************************************************************************)
(* Timestamp / date-time nodes.  A timestamp of the model is a whole day   *)
(* of January of one year: the cell x is the day x at 00:00:00.            *)
(***************************************************************************)
\* the days of the month
Days == 1..31

\* _EXTRACT_PARTS
ExtractParts ==
    [year |-> [x \in Days |-> 2024], month |-> [x \in Days |-> 1], day |-> [x \in Days |-> x],
     hour |-> [x \in Days |-> 0], minute |-> [x \in Days |-> 0], second |-> [x \in Days |-> 0],
     weekday |-> [x \in Days |-> ((x - 1) % 7) + 1], quarter |-> [x \in Days |-> 1]]

\* _TRUNCATE_UNIT_MAP, each duration as the day it truncates the day x to
TruncateUnitMap ==
    [year |-> [x \in Days |-> 1], month |-> [x \in Days |-> 1],
     week |-> [x \in Days |-> x - ((x - 1) % 7)], day |-> [x \in Days |-> x],
     hour |-> [x \in Days |-> x]]

\* _DATE_DIFF_UNITS, each unit as the number of it in one day
DateDiffUnits == [days |-> 1, hours |-> 24, minutes |-> 1440, seconds |-> 86400]

\* the checks that open every date-time node, then the new column
DateColumn(self, w, verb, cols, known, name, dtype, cells) ==
    LET c == w.ctx
        t == c.lf.v
    IN  IF Raised(Unresolved(c, verb)) THEN Raise(self, w, Unresolved(c, verb))
        ELSE IF Missing(cols, t) # {} THEN Raise(self, w, ColumnNotFound(verb))
        ELSE IF ~known THEN Raise(self, w, Exc("ValueError", <<verb, "unsupported">>))
        ELSE Return(self, w, Rebind(c, WithColumn(t, name, dtype,
                 [j \in 1..Len(t.rows) |-> cells[t.rows[j]]])))

OnCell(w, col, f) ==
    [r \in Range(w.ctx.lf.v.rows) |->
       IF Cell(w.ctx.lf.v, r, col) = Null THEN Null ELSE f[Cell(w.ctx.lf.v, r, col)]]

ParseDateNodeExecute(self, w) ==
    DateColumn(self, w, "parse_date:", <<self.column>>, TRUE, self.column, "Datetime",
               OnCell(w, self.column, [x \in Days |-> x]))

ExtractNodeExecute(self, w) ==
    DateColumn(self, w, "extract:", <<self.column>>, self.part \in DOMAIN ExtractParts,
               self.new_column, "Int32", OnCell(w, self.column, ExtractParts[self.part]))

DateDiffNodeExecute(self, w) ==
    DateColumn(self, w, "date_diff:", <<self.col1, self.col2>>,
               self.unit \in DOMAIN DateDiffUnits, self.new_column, "Int64",
               [r \in Range(w.ctx.lf.v.rows) |->
                  IF Null \in {Cell(w.ctx.lf.v, r, self.col1), Cell(w.ctx.lf.v, r, self.col2)}
                  THEN Null
                  ELSE (Cell(w.ctx.lf.v, r, self.col1) - Cell(w.ctx.lf.v, r, self.col2))
                       * DateDiffUnits[self.unit]])

TruncateDateNodeExecute(self, w) ==
    DateColumn(self, w, "truncate_date:", <<self.column>>, self.unit \in DOMAIN TruncateUnitMap,
               self.column, "Datetime", OnCell(w, self.column, TruncateUnitMap[self.unit]))

\* datetime.date.fromisoformat on YYYY-MM-DD of January 2024: the day, or
\* Null when the text is not that of a date
FromIsoFormat(date_str) ==
    IF /\ Len(date_str) = 10
       /\ SubSeq(date_str, 1, 8) = <<"2", "0", "2", "4", "-", "0", "1", "-">>
       /\ IsNumeral(SubSeq(date_str, 9, 10))
       /\ DecimalValue(SubSeq(date_str, 9, 10)) \in 1..31
    THEN DecimalValue(SubSeq(date_str, 9, 10)) ELSE Null

FilterDateNodeExecute(self, w) ==
    LET c == w.ctx
        t == c.lf.v
        date_val == FromIsoFormat(self.date_str)
    IN  IF Raised(Unresolved(c, "filter_date:")) THEN Raise(self, w, Unresolved(c, "filter_date:"))
        ELSE IF self.column \notin Schema(t) THEN Raise(self, w, ColumnNotFound("filter_date:"))
        ELSE IF date_val = Null
             THEN Raise(self, w, Exc("ValueError", <<"filter_date: invalid date">>))
        ELSE IF self.operator \notin Operators THEN Raise(self, w, UnsupportedOperator)
        ELSE Return(self, w, Rebind(c, FilterRows(t, self.column, self.operator, date_val)))

TsSortNodeExecute(self, w, order) ==
    LET c == w.ctx
    IN  IF Raised(Unresolved(c, "ts_sort:")) THEN Raise(self, w, Unresolved(c, "ts_sort:"))
        ELSE IF self.column \notin Schema(c.lf.v) THEN Raise(self, w, ColumnNotFound("ts_sort:"))
        ELSE Return(self, w, Rebind(c, Sort(c.lf.v, <<self.column>>, <<FALSE>>, order)))

(***************************************************************************)
(* ppl_parser.py.  A line is a string; the parsers return the node they    *)
(* build, or the SyntaxError they raise.  Whitespace is the space          *)
(* character; numerals have no fractional part and no exponent.            *)
(***************************************************************************)
\* "".join(s): the characters of s as one text fragment
RECURSIVE Text(_)
Text(s) == IF s = <<>> THEN "" ELSE s[1] \o Text(Tail(s))

\* str.strip()
Strip(s) == StripChars(s, Spaces)

\* str.lstrip()
RECURSIVE LStrip(_)
LStrip(s) == IF s # <<>> /\ s[1] \in Spaces THEN LStrip(Tail(s)) ELSE s

\* sub occurs in s at index i
OccursAt(s, sub, i) == i + Len(sub) - 1 <= Len(s) /\ SubSeq(s, i, i + Len(sub) - 1) = sub

\* str.find(sub) + 1: the index of the first occurrence of sub in s, 0 if none
FindSub(s, sub) ==
    LET hits == {i \in 1..Len(s) : OccursAt(s, sub, i)}
    IN  IF hits = {} THEN 0 ELSE CHOOSE i \in hits : \A j \in hits : i <= j

\* str.partition(sep)
Partition(s, sep) ==
    LET i == FindSub(s, sep)
    IN  IF i = 0 THEN [head |-> s, found |-> FALSE, tail |-> <<>>]
        ELSE [head |-> SubSeq(s, 1, i - 1), found |-> TRUE,
              tail |-> SubSeq(s, i + Len(sep), Len(s))]

\* str.split(ch): the pieces between the occurrences of ch, empty ones kept
RECURSIVE Pieces(_, _, _, _)
Pieces(s, ch, cur, acc) ==
    IF s = <<>> THEN Append(acc, cur)
    ELSE IF s[1] = ch THEN Pieces(Tail(s), ch, <<>>, Append(acc, cur))
    ELSE Pieces(Tail(s), ch, Append(cur, s[1]), acc)

NonEmpty(s) == s # <<>>

\* str.split(): the words of s
Words(s) == SelectSeq(Pieces(s, " ", <<>>, <<>>), NonEmpty)

\* [c.strip() for c in args.split(",") if c.strip()]
CommaList(args) ==
    LET pieces == Pieces(args, ",", <<>>, <<>>)
    IN  SelectSeq([i \in DOMAIN pieces |-> Strip(pieces[i])], NonEmpty)

\* int(s): the value, None when int raises ValueError
IntLiteral(s) ==
    LET t == Strip(s)
        signed == t # <<>> /\ t[1] \in {"+", "-"}
        body == IF signed THEN Tail(t) ELSE t
    IN  IF body # <<>> /\ \A i \in DOMAIN body : body[i] \in Digits
        THEN Some(IF signed /\ t[1] = "-" THEN 0 - DecimalValue(body) ELSE DecimalValue(body))
        ELSE None

\* _strip_quotes, with _QUOTED_RE
StripQuotes(value) ==
    LET v == Strip(value)
    IN  IF Len(v) >= 3 /\ v[1] \in Quotes /\ v[Len(v)] \in Quotes
        THEN SubSeq(v, 2, Len(v) - 1) ELSE v

\* SyntaxError(f"Line {line_no}: ...")
SyntaxError(line_no, what) ==
    Exc("SyntaxError", <<"Line " \o Text(Numeral(line_no)) \o ":", what>>)

Parsed(node) == [exc |-> NoExc, node |-> node]
Rejected(exc) == [exc |-> exc, node |-> [cls |-> "none"]]

\* _FILTER_OPERATORS
FilterOperators == <<<<">", "=">>, <<"<", "=">>, <<"!", "=">>, <<"=", "=">>, <<">">>, <<"<">>>>

\* _parse_condition_tuple: the loop over the operators, from the k-th on
RECURSIVE ConditionFrom(_, _)
ConditionFrom(cond_str, k) ==
    IF k > Len(FilterOperators) THEN None
    ELSE LET op == FilterOperators[k]
             parts == Partition(cond_str, op)
             column == Strip(parts.head)
             value == Strip(parts.tail)
         IN  IF parts.found /\ column # <<>> /\ value # <<>>
             THEN Some([column |-> column, operator |-> Text(op), value |-> value])
             ELSE ConditionFrom(cond_str, k + 1)

ParseConditionTuple(cond_str, line_no, verb) ==
    LET found == ConditionFrom(Strip(cond_str), 1)
    IN  IF found = None
        THEN [exc |-> SyntaxError(line_no, "could not parse '" \o verb \o "' condition"),
              cond |-> None]
        ELSE [exc |-> NoExc, cond |-> found]

\* a match of \s+(word)\s+ at the head of s, for the first of the words
\* that fits, letters in either case: the word as written, the text right
\* after the word (raw) and the text after the whole match (rest); None
\* when there is no match
MatchWord(s, words) ==
    LET t == LStrip(s)
        fits == {k \in DOMAIN words :
                    /\ StartsWith(Lower(t), words[k])
                    /\ Len(t) > Len(words[k])
                    /\ t[Len(words[k]) + 1] \in Spaces}
    IN  IF s = <<>> \/ s[1] \notin Spaces \/ fits = {} THEN None
        ELSE LET k == CHOOSE k \in fits : \A j \in fits : k <= j
             IN  Some([word |-> SubSeq(t, 1, Len(words[k])),
                       raw |-> SubSeq(t, Len(words[k]) + 1, Len(t)),
                       rest |-> LStrip(SubSeq(t, Len(words[k]) + 1, Len(t)))])

\* re.split for a pattern \s+(word)\s+: the texts between the matches,
\* alternating with the words matched
RECURSIVE SplitOnWords(_, _, _, _)
SplitOnWords(s, words, cur, acc) ==
    IF s = <<>> THEN Append(acc, cur)
    ELSE LET m == MatchWord(s, words)
         IN  IF m = None THEN SplitOnWords(Tail(s), words, Append(cur, s[1]), acc)
             ELSE SplitOnWords(m.v.rest, words, <<>>, acc \o <<cur, m.v.word>>)

\* the index of the first quote character of s after its first character,
\* 0 if there is none
ClosingQuote(s) ==
    LET hits == {i \in 2..Len(s) : s[i] \in Quotes}
    IN  IF hits = {} THEN 0 ELSE CHOOSE i \in hits : \A j \in hits : i <= j

\* the match of (?:chunk\s+(\d+))?\s*$ after the closing quote and \s*:
\* the digits, <<>> without the suffix, None when there is no match
ChunkSuffix(rest) ==
    LET r == Strip(rest)
        digits == LStrip(SubSeq(r, 6, Len(r)))
    IN  IF r = <<>> THEN Some(<<>>)
        ELSE IF /\ StartsWith(Lower(r), <<"c", "h", "u", "n", "k">>)
                /\ Len(r) > 6
                /\ r[6] \in Spaces
                /\ digits # <<>>
                /\ \A i \in DOMAIN digits : digits[i] \in Digits
             THEN Some(digits)
        ELSE None

ParseSource(args, line_no) ==
    LET a == Strip(args)
        q == ClosingQuote(a)
        matched == a # <<>> /\ a[1] \in Quotes /\ q >= 3
        suffix == ChunkSuffix(SubSeq(a, q + 1, Len(a)))
    IN  IF ~matched \/ suffix = None
        THEN Rejected(SyntaxError(line_no, "'source' requires a file path."))
        ELSE IF suffix.v # <<>> /\ DecimalValue(suffix.v) <= 0
             THEN Rejected(SyntaxError(line_no, "chunk size must be a positive integer."))
        ELSE Parsed([cls |-> "SourceNode", file_path |-> SubSeq(a, 2, q - 1),
                     chunk_size |-> IF suffix.v = <<>> THEN None
                                    ELSE Some(DecimalValue(suffix.v))])

\* _COMPOUND_SPLIT_RE.split(args)
CompoundSplit(args) == SplitOnWords(args, <<<<"a", "n", "d">>, <<"o", "r">>>>, <<>>, <<>>)

ParseFilter(args, line_no) ==
    LET a == Strip(args)
        parts == CompoundSplit(a)
        conds == [i \in 1..((Len(parts) + 1) \div 2) |->
                     ParseConditionTuple(Strip(parts[2 * i - 1]), line_no, "filter")]
        bad == {i \in DOMAIN conds : Raised(conds[i].exc)}
    IN  IF bad # {} THEN Rejected(conds[CHOOSE i \in bad : \A j \in bad : i <= j].exc)
        ELSE IF Len(parts) = 1
             THEN Parsed([cls |-> "FilterNode", column |-> conds[1].cond.v.column,
                          operator |-> conds[1].cond.v.operator,
                          value |-> conds[1].cond.v.value])
        ELSE Parsed([cls |-> "CompoundFilterNode",
                     conditions |-> [i \in DOMAIN conds |-> conds[i].cond.v],
                     logic |-> [i \in 1..(Len(parts) \div 2) |-> Text(Lower(parts[2 * i]))]])

\* the parsers of a comma-separated column list
ParseColumns(args, line_no, cls, verb) ==
    IF CommaList(args) = <<>>
    THEN Rejected(SyntaxError(line_no, "'" \o verb \o "' requires at least one column."))
    ELSE Parsed([cls |-> cls, columns |-> CommaList(args)])

ParseSelect(args, line_no) == ParseColumns(args, line_no, "SelectNode", "select")

ParseDrop(args, line_no) == ParseColumns(args, line_no, "DropNode", "drop")

ParseGroupBy(args, line_no) ==
    IF ~StartsWith(Lower(Strip(args)), <<"b", "y">>)
    THEN Rejected(SyntaxError(line_no, "'group' must be followed by 'by'."))
    ELSE ParseColumns(Strip(SubSeq(Strip(args), 3, Len(Strip(args)))), line_no,
                      "GroupByNode", "group by")

ParseCount(args, line_no) ==
    LET a == Strip(args)
        c == ParseConditionTuple(Strip(SubSeq(a, 4, Len(a))), line_no, "count if")
    IN  IF a = <<>> THEN Parsed([cls |-> "CountNode"])
        ELSE IF StartsWith(Lower(a), <<"i", "f", " ">>)
             THEN (IF Raised(c.exc) THEN Rejected(c.exc)
                   ELSE Parsed([cls |-> "CountIfNode", column |-> c.cond.v.column,
                                operator |-> c.cond.v.operator, value |-> c.cond.v.value]))
        ELSE Rejected(SyntaxError(line_no,
                 "'count' takes no arguments or 'count if <condition>'."))

\* the parsers of one path, quoted or not
ParsePath(args, line_no, verb, node) ==
    IF StripQuotes(Strip(args)) = <<>>
    THEN Rejected(SyntaxError(line_no, "'" \o verb \o "' requires a file path."))
    ELSE Parsed(node)

ParseSave(args, line_no) ==
    ParsePath(args, line_no, "save",
              [cls |-> "SaveNode", file_path |-> StripQuotes(Strip(args))])

ParseMerge(args, line_no) ==
    ParsePath(args, line_no, "merge",
              [cls |-> "MergeNode", file_path |-> StripQuotes(Strip(args))])

ParseForeach(args, line_no) ==
    ParsePath(args, line_no, "foreach",
              [cls |-> "ForeachNode", pattern |-> StripQuotes(Strip(args))])

ParseInclude(args, line_no) ==
    ParsePath(args, line_no, "include",
              [cls |-> "IncludeNode", file_path |-> StripQuotes(Strip(args))])

ParseSort(args, line_no) ==
    LET a == Strip(args)
        parts == CommaList(Strip(SubSeq(a, 3, Len(a))))
        direction(part) == IF Len(Words(part)) > 1 THEN Lower(Words(part)[2])
                           ELSE <<"a", "s", "c">>
    IN  IF ~StartsWith(Lower(a), <<"b", "y">>)
        THEN Rejected(SyntaxError(line_no, "'sort' must be followed by 'by'."))
        ELSE IF parts = <<>>
             THEN Rejected(SyntaxError(line_no, "'sort by' requires at least one column."))
        ELSE IF \E i \in DOMAIN parts :
                   direction(parts[i]) \notin {<<"a", "s", "c">>, <<"d", "e", "s", "c">>}
             THEN Rejected(SyntaxError(line_no, "sort direction must be 'asc' or 'desc'"))
        ELSE Parsed([cls |-> "SortNode",
                     columns |-> [i \in DOMAIN parts |-> Words(parts[i])[1]],
                     ascending |-> [i \in DOMAIN parts |->
                                       direction(parts[i]) = <<"a", "s", "c">>]])

ParseRename(args, line_no) ==
    LET parts == Words(Strip(args))
    IN  IF Len(parts) # 2
        THEN Rejected(SyntaxError(line_no, "'rename' requires exactly two column names."))
        ELSE Parsed([cls |-> "RenameNode", old_name |-> parts[1], new_name |-> parts[2]])

\* the first index i >= from of s where \s+word\s+ matches, 0 if none
FindWord(s, word, from) ==
    LET hits == {i \in from..Len(s) : MatchWord(SubSeq(s, i, Len(s)), <<word>>) # None}
    IN  IF hits = {} THEN 0 ELSE CHOOSE i \in hits : \A j \in hits : i <= j

\* the match of \s+(.+?)\s+word\s+ at the head of raw, the text after a
\* keyword: the group and the text right after the word.  The first \s+
\* takes as many spaces as leave a match for which the rest of the
\* pattern, Follows, matches too.
LazyGroup(raw, word, Follows(_)) ==
    LET n == Len(raw) - Len(LStrip(raw))
        Match(k) ==
            CHOOSE r \in
                {CHOOSE q \in
                     {IF at = 0 THEN None
                      ELSE Some([group |-> SubSeq(after, 1, at - 1),
                                 raw |-> MatchWord(SubSeq(after, at, Len(after)),
                                                   <<word>>).v.raw]) :
                      at \in {FindWord(after, word, 2)}} : TRUE :
                 after \in {SubSeq(raw, k + 1, Len(raw))}} : TRUE
        ks == {k \in 1..n : Match(k) # None /\ Follows(Match(k).v.raw)}
    IN  IF ks = {} THEN None
        ELSE Match(CHOOSE k \in ks : \A j \in ks : j <= k)

\* _IF_THEN_ELSE_RE.match(expr): the three groups, None when there is no match
IfThenElse(expr) ==
    LET then == <<"t", "h", "e", "n">>
        else == <<"e", "l", "s", "e">>
        HasElse(raw) == LStrip(raw) # <<>>
        HasThen(raw) == LazyGroup(raw, else, HasElse) # None
    IN  IF expr = <<>> \/ expr[1] \in Spaces THEN None
        ELSE CHOOSE r \in
            {IF head = None THEN None
             ELSE CHOOSE q \in
                 {IF cond = None THEN None
                  ELSE CHOOSE g \in
                      {Some([cond |-> cond.v.group, true_val |-> true_val.v.group,
                             false_val |-> LStrip(true_val.v.raw)]) :
                       true_val \in {LazyGroup(cond.v.raw, else, HasElse)}} : TRUE :
                  cond \in {LazyGroup(head.v.raw, then, HasThen)}} : TRUE :
             head \in {MatchWord(<<" ">> \o expr, <<<<"i", "f">>>>)}} : TRUE

ParseAdd(args, line_no) ==
    LET parts == Partition(args, <<"=">>)
        col == Strip(parts.head)
        expr == Strip(parts.tail)
        AddIf(m) ==
            CHOOSE r \in
                {IF Raised(c.exc) THEN Rejected(c.exc)
                 ELSE Parsed([cls |-> "AddIfNode", column |-> col,
                              cond_col |-> c.cond.v.column,
                              cond_op |-> c.cond.v.operator,
                              cond_val |-> c.cond.v.value,
                              true_val |-> Strip(m.true_val),
                              false_val |-> Strip(m.false_val)]) :
                 c \in {ParseConditionTuple(Strip(m.cond), line_no, "add")}} : TRUE
    IN  IF ~parts.found THEN Rejected(SyntaxError(line_no, "'add' requires '='."))
        ELSE IF col = <<>> \/ expr = <<>>
             THEN Rejected(SyntaxError(line_no, "'add' requires a column name and expression."))
        ELSE CHOOSE r \in
            {IF m = None
             THEN Parsed([cls |-> "AddNode", column |-> col, expression |-> expr])
             ELSE AddIf(m.v) :
             m \in {IfThenElse(expr)}} : TRUE

\* the parsers of a row count
ParseRowCount(args, line_no, cls, verb) ==
    LET n == IntLiteral(args)
    IN  IF n = None \/ n.v < 0
        THEN Rejected(SyntaxError(line_no, "'" \o verb \o "' requires a positive integer."))
        ELSE Parsed([cls |-> cls, n |-> n.v])

ParseLimit(args, line_no) == ParseRowCount(args, line_no, "LimitNode", "limit")

ParseHead(args, line_no) == ParseRowCount(args, line_no, "HeadNode", "head")

ParseSample(args, line_no) ==
    LET a == Strip(args)
        pct == IntLiteral(SubSeq(a, 1, Len(a) - 1))
        n == IntLiteral(a)
    IN  IF a # <<>> /\ a[Len(a)] = "%"
        THEN (IF pct = None \/ ~(0 < pct.v /\ pct.v <= 100)
              THEN Rejected(SyntaxError(line_no,
                       "'sample N%' requires a percentage between 0 and 100."))
              ELSE Parsed([cls |-> "SampleNode", n |-> None, pct |-> pct]))
        ELSE IF n = None \/ n.v < 0
             THEN Rejected(SyntaxError(line_no,
                      "'sample' requires a positive integer or percentage."))
        ELSE Parsed([cls |-> "SampleNode", n |-> n, pct |-> None])

\* the parsers _parse_string_transform and _parse_agg make
ParseColumn(args, line_no, cls, verb) ==
    IF Strip(args) = <<>>
    THEN Rejected(SyntaxError(line_no, "'" \o verb \o "' requires a column name."))
    ELSE Parsed([cls |-> cls, column |-> Strip(args)])

ParseStringTransform(args, line_no, cls, verb) == ParseColumn(args, line_no, cls, verb)

ParseAgg(args, line_no, cls, verb) == ParseColumn(args, line_no, cls, verb)

ParseCast(args, line_no) ==
    LET parts == Words(Strip(args))
    IN  IF Len(parts) # 2
        THEN Rejected(SyntaxError(line_no, "'cast' requires a column name and a type."))
        ELSE Parsed([cls |-> "CastNode", column |-> parts[1], type_name |-> Text(parts[2])])

\* the text after the second group of the pattern of _parse_replace:
\* \s+ and a third group up to the end; None when it does not match
ReplaceTail(r) ==
    LET t == LStrip(r)
    IN  IF /\ r # <<>>
           /\ r[1] \in Spaces
           /\ t # <<>>
           /\ \/ t[1] \in Quotes /\ Len(t) >= 2 /\ t[Len(t)] \in Quotes
              \/ \A i \in DOMAIN t : t[i] \notin Spaces
        THEN Some(t) ELSE None

\* the second group of that pattern at the head of w: a quoted text up to
\* the first quote after which the rest matches, or else the first word
ReplaceGroup(w) ==
    LET quoted == {k \in 2..Len(w) : /\ w[1] \in Quotes
                                     /\ w[k] \in Quotes
                                     /\ ReplaceTail(SubSeq(w, k + 1, Len(w))) # None}
        word == Len(w) - Len(Partition(w, <<" ">>).tail)
                   - (IF Partition(w, <<" ">>).found THEN 1 ELSE 0)
    IN  IF quoted # {} THEN CHOOSE k \in quoted : \A j \in quoted : k <= j
        ELSE IF ReplaceTail(SubSeq(w, word + 1, Len(w))) # None THEN word
        ELSE 0

ParseReplace(args, line_no) ==
    LET a == Strip(args)
        first == Partition(a, <<" ">>)
        w == LStrip(first.tail)
        k == ReplaceGroup(w)
    IN  IF ~first.found \/ first.head = <<>> \/ w = <<>> \/ k = 0
        THEN Rejected(SyntaxError(line_no,
                 "'replace' requires column, old value, and new value."))
        ELSE Parsed([cls |-> "ReplaceNode", column |-> first.head,
                     old_value |-> StripQuotes(SubSeq(w, 1, k)),
                     new_value |-> StripQuotes(ReplaceTail(SubSeq(w, k + 1, Len(w))).v)])

ParsePivot(args, line_no) ==
    LET parts == Words(Strip(args))
        Param(i, name) == /\ StartsWith(Lower(parts[i]), name)
                          /\ Len(parts[i]) > Len(name)
        Value(i, name) == SubSeq(parts[i], Len(name) + 1, Len(parts[i]))
        index == <<"i", "n", "d", "e", "x", "=">>
        column == <<"c", "o", "l", "u", "m", "n", "=">>
        value == <<"v", "a", "l", "u", "e", "=">>
    IN  IF Len(parts) >= 3 /\ Param(1, index) /\ Param(2, column) /\ Param(3, value)
        THEN Parsed([cls |-> "PivotNode", index |-> Value(1, index),
                     column |-> Value(2, column), value |-> Value(3, value)])
        ELSE Rejected(SyntaxError(line_no,
                 "'pivot' requires index=, column=, and value= parameters."))

ParseAggMulti(args, line_no) ==
    LET parts == CommaList(args)
        verb(i) == Lower(Words(parts[i])[1])
        verbs == {<<"s", "u", "m">>, <<"a", "v", "g">>, <<"m", "i", "n">>, <<"m", "a", "x">>,
                  <<"c", "o", "u", "n", "t">>}
        Bad(i) == verb(i) \notin verbs
                    \/ (verb(i) # <<"c", "o", "u", "n", "t">> /\ Len(Words(parts[i])) # 2)
        bad == {i \in DOMAIN parts : Bad(i)}
        first == CHOOSE i \in bad : \A j \in bad : i <= j
    IN  IF parts = <<>>
        THEN Rejected(SyntaxError(line_no, "'agg' requires at least one spec."))
        ELSE IF bad # {}
             THEN Rejected(SyntaxError(line_no,
                      IF verb(first) \notin verbs
                      THEN "unknown agg verb '" \o Text(verb(first)) \o "'."
                      ELSE "'" \o Text(verb(first)) \o "' requires a column name in agg."))
        ELSE Parsed([cls |-> "MultiAggNode",
                     specs |-> [i \in DOMAIN parts |->
                                   [verb |-> Text(verb(i)),
                                    col |-> IF verb(i) = <<"c", "o", "u", "n", "t">> THEN None
                                            ELSE Some(Words(parts[i])[2])]]])

ParseJoin(args, line_no) ==
    LET a == Strip(args)
        q == ClosingQuote(a)
        remainder == Strip(SubSeq(a, q + 1, Len(a)))
        parts == Words(Strip(SubSeq(remainder, 3, Len(remainder))))
        how == IF Len(parts) > 1 THEN Text(Lower(parts[2])) ELSE "inner"
    IN  IF ~(a # <<>> /\ a[1] \in Quotes /\ q >= 3)
        THEN Rejected(SyntaxError(line_no, "'join' requires a quoted file path."))
        ELSE IF ~StartsWith(Lower(remainder), <<"o", "n">>)
             THEN Rejected(SyntaxError(line_no, "'join' requires 'on <column>'."))
        ELSE IF parts = <<>>
             THEN Rejected(SyntaxError(line_no, "'join ... on' requires a key column name."))
        ELSE IF how \notin {"inner", "left", "right", "outer"}
             THEN Rejected(SyntaxError(line_no, "join type must be one of: inner, left, right, outer."))
        ELSE Parsed([cls |-> "JoinNode", file_path |-> SubSeq(a, 2, q - 1),
                     key |-> parts[1], how |-> how])

ParseLog(args, line_no) ==
    IF Strip(args) = <<>>
    THEN Rejected(SyntaxError(line_no, "'log' requires a message."))
    ELSE Parsed([cls |-> "LogNode", message |-> Strip(args)])

ParseAssert(args, line_no) ==
    LET c == ParseConditionTuple(Strip(args), line_no, "assert")
    IN  IF Raised(c.exc) THEN Rejected(c.exc)
        ELSE Parsed([cls |-> "AssertNode", column |-> c.cond.v.column,
                     operator |-> c.cond.v.operator, value |-> c.cond.v.value])

ParseFill(args, line_no) ==
    LET parts == Partition(Strip(args), <<" ">>)
    IN  IF ~parts.found
        THEN Rejected(SyntaxError(line_no,
                 "'fill' requires a column and a strategy or value."))
        ELSE Parsed([cls |-> "FillNode", column |-> parts.head,
                     strategy |-> LStrip(parts.tail)])

ParseSet(args, line_no) ==
    LET parts == Partition(args, <<"=">>)
        name == Strip(parts.head)
        value == Strip(parts.tail)
    IN  IF ~parts.found THEN Rejected(SyntaxError(line_no, "'set' requires '='."))
        ELSE IF name = <<>> \/ value = <<>>
             THEN Rejected(SyntaxError(line_no, "'set' requires a name and a value."))
        ELSE Parsed([cls |-> "SetNode", name |-> name, value |-> value])

ParseEnv(args, line_no) ==
    IF Strip(args) = <<>>
    THEN Rejected(SyntaxError(line_no, "'env' requires an environment variable name."))
    ELSE Parsed([cls |-> "EnvNode", var_name |-> Strip(args)])

\* the keys of _PARSERS
Parsers ==
    {"source", "filter", "where", "select", "group", "count", "save", "sort", "rename",
     "add", "drop", "limit", "sample", "trim", "uppercase", "lowercase", "cast", "replace",
     "pivot", "sum", "avg", "min", "max", "agg", "join", "merge", "foreach", "include",
     "head", "log", "assert", "fill", "set", "env"}

\* _PARSERS[keyword](rest, line_no)
ParseWith(keyword, rest, line_no) ==
    CASE keyword = "source" -> ParseSource(rest, line_no)
      [] keyword \in {"filter", "where"} -> ParseFilter(rest, line_no)
      [] keyword = "select" -> ParseSelect(rest, line_no)
      [] keyword = "group" -> ParseGroupBy(rest, line_no)
      [] keyword = "count" -> ParseCount(rest, line_no)
      [] keyword = "save" -> ParseSave(rest, line_no)
      [] keyword = "sort" -> ParseSort(rest, line_no)
      [] keyword = "rename" -> ParseRename(rest, line_no)
      [] keyword = "add" -> ParseAdd(rest, line_no)
      [] keyword = "drop" -> ParseDrop(rest, line_no)
      [] keyword = "limit" -> ParseLimit(rest, line_no)
      [] keyword = "sample" -> ParseSample(rest, line_no)
      [] keyword = "trim" -> ParseStringTransform(rest, line_no, "TrimNode", "trim")
      [] keyword = "uppercase" -> ParseStringTransform(rest, line_no, "UppercaseNode", "uppercase")
      [] keyword = "lowercase" -> ParseStringTransform(rest, line_no, "LowercaseNode", "lowercase")
      [] keyword = "cast" -> ParseCast(rest, line_no)
      [] keyword = "replace" -> ParseReplace(rest, line_no)
      [] keyword = "pivot" -> ParsePivot(rest, line_no)
      [] keyword = "sum" -> ParseAgg(rest, line_no, "SumNode", "sum")
      [] keyword = "avg" -> ParseAgg(rest, line_no, "AvgNode", "avg")
      [] keyword = "min" -> ParseAgg(rest, line_no, "MinNode", "min")
      [] keyword = "max" -> ParseAgg(rest, line_no, "MaxNode", "max")
      [] keyword = "agg" -> ParseAggMulti(rest, line_no)
      [] keyword = "join" -> ParseJoin(rest, line_no)
      [] keyword = "merge" -> ParseMerge(rest, line_no)
      [] keyword = "foreach" -> ParseForeach(rest, line_no)
      [] keyword = "include" -> ParseInclude(rest, line_no)
      [] keyword = "head" -> ParseHead(rest, line_no)
      [] keyword = "log" -> ParseLog(rest, line_no)
      [] keyword = "assert" -> ParseAssert(rest, line_no)
      [] keyword = "fill" -> ParseFill(rest, line_no)
      [] keyword = "set" -> ParseSet(rest, line_no)
      [] keyword = "env" -> ParseEnv(rest, line_no)

\* _NO_ARG_NODES
NoArgNodes ==
    [keyword \in {"distinct", "print", "schema", "inspect"} |->
        CASE keyword = "distinct" -> "DistinctNode"
          [] keyword = "print" -> "PrintNode"
          [] keyword = "schema" -> "SchemaNode"
          [] keyword = "inspect" -> "InspectNode"]

\* sorted(list(_PARSERS) + list(_NO_ARG_NODES) + ["try"])
AllCommands ==
    <<"add", "agg", "assert", "avg", "cast", "count", "distinct", "drop", "env", "fill",
      "filter", "foreach", "group", "head", "include", "inspect", "join", "limit", "log",
      "lowercase", "max", "merge", "min", "pivot", "print", "rename", "replace", "sample",
      "save", "schema", "select", "set", "sort", "source", "sum", "trim", "try", "uppercase",
      "where">>

\* the first word of a line in lower case, "" for a blank line
Token(line) == IF Strip(line) = <<>> THEN "" ELSE Text(Lower(Words(Strip(line))[1]))

\* a scan that stops at the first on_error line, whatever the depth
RECURSIVE OnErrorLineFirst(_, _, _)
OnErrorLineFirst(lines, i, depth) ==
    IF i > Len(lines) THEN 0
    ELSE IF Token(lines[i]) = "on_error" THEN i
    ELSE OnErrorLineFirst(lines, i + 1, depth)

\* the scan for the on_error line of a try whose body starts at line i: the
\* index of that line, 0 when the lines end first
RECURSIVE OnErrorLine(_, _, _)
OnErrorLine(lines, i, depth) ==
    IF i > Len(lines) THEN 0
    ELSE IF Token(lines[i]) = "try" THEN OnErrorLine(lines, i + 1, depth + 1)
    ELSE IF Token(lines[i]) = "on_error"
         THEN (IF depth = 1 THEN i ELSE OnErrorLine(lines, i + 1, depth - 1))
    ELSE OnErrorLine(lines, i + 1, depth)

\* parse_lines: the nodes, or the SyntaxError raised; the loop from line i on
RECURSIVE ParseFrom(_, _, _)
ParseFrom(lines, i, nodes) ==
    IF i > Len(lines) THEN [exc |-> NoExc, nodes |-> nodes]
    ELSE LET line == lines[i]
             line_no == i
             keyword == Partition(line, <<" ">>).head
             rest == Partition(line, <<" ">>).tail
             keyword_lower == Text(Lower(keyword))
         IN  IF keyword_lower = "try"
             THEN LET e == OnErrorLine(lines, i + 1, 1)
                      body_lines == SubSeq(lines, i + 1, e - 1)
                      error_action == Strip(Partition(lines[e], <<" ">>).tail)
                      action_lower == Lower(error_action)
                      body_nodes == ParseFrom(body_lines, 1, <<>>)
                      on_error_nodes ==
                          IF action_lower = <<"s", "k", "i", "p">>
                               \/ StartsWith(action_lower, <<"l", "o", "g", " ">>)
                          THEN [exc |-> NoExc, nodes |-> <<>>]
                          ELSE IF error_action # <<>>
                               THEN ParseFrom(<<error_action>>, 1, <<>>)
                          ELSE [exc |-> SyntaxError(line_no, "'on_error' requires an action."),
                                nodes |-> <<>>]
                  IN  IF e = 0
                      THEN [exc |-> SyntaxError(line_no,
                                       "'try' block has no 'on_error' handler."),
                            nodes |-> <<>>]
                      ELSE IF Raised(body_nodes.exc)
                           THEN [exc |-> body_nodes.exc, nodes |-> <<>>]
                      ELSE IF Raised(on_error_nodes.exc)
                           THEN [exc |-> on_error_nodes.exc, nodes |-> <<>>]
                      ELSE ParseFrom(lines, e + 1,
                               Append(nodes, [cls |-> "TryNode", body |-> body_nodes.nodes,
                                              on_error_nodes |-> on_error_nodes.nodes,
                                              error_action |-> error_action]))
             ELSE IF keyword_lower \in DOMAIN NoArgNodes
                  THEN ParseFrom(lines, i + 1, Append(nodes, [cls |-> NoArgNodes[keyword_lower]]))
             ELSE IF keyword_lower \in Parsers
                  THEN CHOOSE r \in
                           {IF Raised(p.exc) THEN [exc |-> p.exc, nodes |-> <<>>]
                            ELSE ParseFrom(lines, i + 1, Append(nodes, p.node)) :
                            p \in {ParseWith(keyword_lower, rest, line_no)}} : TRUE
             ELSE [exc |-> Exc("SyntaxError",
                               <<"Line " \o Text(Numeral(line_no)) \o ":",
                                 "unknown command '" \o Text(keyword) \o "'.",
                                 "Supported commands:">> \o AllCommands),
                   nodes |-> <<>>]

ParseLines(lines) == ParseFrom(lines, 1, <<>>)

(***************************************************************************)
(* file_reader.py.  A pipeline file holds its raw lines.                   *)
(***************************************************************************)
\* _strip_inline_comment: the line up to the first whitespace that a "#"
\* follows
StripInlineComment(line) ==
    LET hits == {i \in 1..Len(line) :
                    /\ line[i] \in Spaces
                    /\ LStrip(SubSeq(line, i, Len(line))) # <<>>
                    /\ LStrip(SubSeq(line, i, Len(line)))[1] = "#"}
    IN  IF hits = {} THEN line
        ELSE SubSeq(line, 1, (CHOOSE i \in hits : \A j \in hits : i <= j) - 1)

\* read_ppl_file: the loop over the raw lines
RECURSIVE CleanLines(_)
CleanLines(raw_lines) ==
    IF raw_lines = <<>> THEN <<>>
    ELSE LET line == Strip(Head(raw_lines))
         IN  IF line = <<>> \/ line[1] = "#" THEN CleanLines(Tail(raw_lines))
             ELSE IF StripInlineComment(line) = <<>> THEN CleanLines(Tail(raw_lines))
             ELSE <<StripInlineComment(line)>> \o CleanLines(Tail(raw_lines))

\* read_ppl_file: the cleaned lines, or the error raised
ReadPplFile(file_path, files) ==
    IF ~EndsWith(file_path, DotPpl)
    THEN [exc |-> Exc("ValueError", <<"Expected a .ppl file">>), lines |-> <<>>]
    ELSE IF Canonical(file_path) \notin DOMAIN files
         THEN [exc |-> Exc("FileNotFoundError", <<"Pipeline file not found">>), lines |-> <<>>]
    ELSE [exc |-> NoExc, lines |-> CleanLines(files[Canonical(file_path)].lines)]

(***************************************************************************)
(* Nodes that run other nodes: TryNode, IncludeNode.  A node is a record   *)
(* of its class name (cls) and the fields of its dataclass.                *)
(***************************************************************************)
RECURSIVE Execute(_, _, _)
RECURSIVE RunNodes(_, _, _)

\* a loop that goes on to the next node after a call has raised
RECURSIVE RunNodesPastFailure(_, _, _)
RunNodesPastFailure(nodes, w, order) ==
    IF nodes = <<>> THEN <<>>
    ELSE CHOOSE rs \in
             {<<r>> \o RunNodesPastFailure(Tail(nodes), World(r.ctx, r.fs), order) :
              r \in {Execute(nodes[1], w, order)}} : TRUE

\* "for node in nodes: node.execute(context)": the results of the calls made,
\* the last one being the call that raised, if one did
RunNodes(nodes, w, order) ==
    IF nodes = <<>> THEN <<>>
    ELSE CHOOSE rs \in
             {IF Raised(r.exc) THEN <<r>>
              ELSE <<r>> \o RunNodes(Tail(nodes), World(r.ctx, r.fs), order) :
              r \in {Execute(nodes[1], w, order)}} : TRUE

\* what a run of nodes leaves behind
Failed(rs) == rs # <<>> /\ Raised(rs[Len(rs)].exc)
\* a run of nodes that leaves behind the world it started from
AfterRollsBack(rs, w) == w
After(rs, w) == IF rs = <<>> THEN w ELSE World(rs[Len(rs)].ctx, rs[Len(rs)].fs)
Accesses(rs) == Flatten([i \in 1..Len(rs) |-> rs[i].io])
Printed(rs) == Flatten([i \in 1..Len(rs) |-> rs[i].out])

\* a try that lets the error of its body out
TryHandlerReraises(self, w, order, body) ==
    [Result(self, w, After(body, w).ctx, After(body, w).fs,
            IF Failed(body) THEN body[Len(body)].exc ELSE NoExc,
            Accesses(body), Printed(body))
       EXCEPT !.body = body, !.invoked = IF Failed(body) THEN 1 ELSE 0]

\* a try that swallows the errors of its handler commands
TryHandlerSwallows(self, w, order, body) ==
    LET w1 == After(body, w)
        done == [Result(self, w, w1.ctx, w1.fs, NoExc, Accesses(body), Printed(body))
                   EXCEPT !.body = body]
    IN  IF ~Failed(body) THEN done
        ELSE CHOOSE r \in {[done EXCEPT !.invoked = 1, !.handler = handler,
                              !.ctx = After(handler, w1).ctx, !.fs = After(handler, w1).fs,
                              !.io = @ \o Accesses(handler), !.out = @ \o Printed(handler)] :
                           handler \in {RunNodes(self.on_error_nodes, w1, order)}} : TRUE
\* a try that runs its handler and then passes the body's error on
TryHandlerPassesErrorOn(self, w, order, body) ==
    LET exc == body[Len(body)].exc
        w1 == After(body, w)
        done == [Result(self, w, w1.ctx, w1.fs, NoExc, Accesses(body), Printed(body))
                   EXCEPT !.body = body]
    IN  IF ~Failed(body) THEN done
        ELSE CHOOSE r \in {[done EXCEPT !.invoked = 1, !.handler = handler,
                              !.ctx = After(handler, w1).ctx, !.fs = After(handler, w1).fs,
                              !.io = @ \o Accesses(handler), !.out = @ \o Printed(handler),
                              !.exc = exc] :
                           handler \in {RunNodes(self.on_error_nodes, w1, order)}} : TRUE
\* TryNode.execute once the body has run: body are the results of its calls
TryHandler(self, w, order, body) ==
    LET exc == body[Len(body)].exc
        w1 == After(body, w)
        action_lower == Lower(StripChars(self.error_action, Spaces))
        text == SubSeq(self.error_action, 5, Len(self.error_action))
        msg == SubstituteVars(StripChars(StripChars(text, Spaces), Quotes), w1.ctx)
        done == [Result(self, w, w1.ctx, w1.fs, NoExc, Accesses(body), Printed(body))
                   EXCEPT !.body = body]
    IN  IF ~Failed(body) THEN done
        ELSE IF action_lower = <<"s", "k", "i", "p">> THEN [done EXCEPT !.invoked = 1]
        ELSE IF StartsWith(action_lower, <<"l", "o", "g", " ">>)
             THEN IF Raised(msg.exc) THEN [done EXCEPT !.invoked = 1, !.exc = msg.exc]
                  ELSE [done EXCEPT !.invoked = 1,
                                    !.out = @ \o << <<"[TRY]", msg.s, StrOf(exc)>> >>]
        ELSE CHOOSE r \in {[done EXCEPT !.invoked = 1, !.handler = handler,
                              !.ctx = After(handler, w1).ctx, !.fs = After(handler, w1).fs,
                              !.io = @ \o Accesses(handler), !.out = @ \o Printed(handler),
                              !.exc = IF Failed(handler) THEN handler[Len(handler)].exc
                                      ELSE NoExc] :
                           handler \in {RunNodes(self.on_error_nodes, w1, order)}} : TRUE

TryNodeExecute(self, w, order) ==
    CHOOSE r \in {TryHandler(self, w, order, body) :
                    body \in {RunNodes(self.body, w, order)}} : TRUE

\* IncludeNode.execute once the file is read: body are the results of the
\* calls on the nodes parsed from it
Included(self, w, path, body) ==
    [Result(self, w, After(body, w).ctx, After(body, w).fs,
            IF Failed(body)
            THEN Exc("RuntimeError",
                     <<"include", "[" \o body[Len(body)].node.cls \o "]">>
                        \o StrOf(body[Len(body)].exc))
            ELSE NoExc,
            <<IO("read", path, w.ctx)>> \o Accesses(body), Printed(body))
       EXCEPT !.body = body]

IncludeNodeExecute(self, w, order) ==
    LET c == w.ctx
        sub == SubstituteVars(self.file_path, c)
        path == sub.s
    IN  IF Raised(sub.exc) THEN Raise(self, w, sub.exc)
        ELSE IF Raised(CheckPathSandbox(path, c)) THEN Raise(self, w, CheckPathSandbox(path, c))
        ELSE IF ~Exists(path, w.fs)
             THEN Raise(self, w, Exc("FileNotFoundError", <<"include: file not found">>))
        ELSE IF Raised(ReadPplFile(path, w.fs).exc)
             THEN Raise(self, w, ReadPplFile(path, w.fs).exc)
        ELSE CHOOSE r \in
            {IF Raised(sub_nodes.exc)
             THEN RaiseAfter(self, w, sub_nodes.exc, <<IO("read", path, c)>>)
             ELSE CHOOSE q \in {Included(self, w, path, body) :
                                   body \in {RunNodes(sub_nodes.nodes, w, order)}} : TRUE :
             sub_nodes \in {ParseLines(ReadPplFile(path, w.fs).lines)}} : TRUE

\* node.execute(context): the method of the node's class
Execute(node, w, order) ==
    CASE node.cls = "SourceNode" -> SourceNodeExecute(node, w)
      [] node.cls = "ForeachNode" -> ForeachNodeExecute(node, w)
      [] node.cls = "IncludeNode" -> IncludeNodeExecute(node, w, order)
      [] node.cls = "FilterNode" -> FilterNodeExecute(node, w)
      [] node.cls = "CompoundFilterNode" -> CompoundFilterNodeExecute(node, w)
      [] node.cls = "SelectNode" -> SelectNodeExecute(node, w)
      [] node.cls = "DropNode" -> DropNodeExecute(node, w)
      [] node.cls = "LimitNode" -> LimitNodeExecute(node, w)
      [] node.cls = "DistinctNode" -> DistinctNodeExecute(node, w, order)
      [] node.cls = "SampleNode" -> SampleNodeExecute(node, w, order)
      [] node.cls = "SortNode" -> SortNodeExecute(node, w, order)
      [] node.cls = "RenameNode" -> RenameNodeExecute(node, w)
      [] node.cls = "AddNode" -> AddNodeExecute(node, w)
      [] node.cls = "AddIfNode" -> AddIfNodeExecute(node, w)
      [] node.cls = "TrimNode" -> TrimNodeExecute(node, w)
      [] node.cls = "UppercaseNode" -> UppercaseNodeExecute(node, w)
      [] node.cls = "LowercaseNode" -> LowercaseNodeExecute(node, w)
      [] node.cls = "CastNode" -> CastNodeExecute(node, w)
      [] node.cls = "ReplaceNode" -> ReplaceNodeExecute(node, w)
      [] node.cls = "PivotNode" -> PivotNodeExecute(node, w)
      [] node.cls = "GroupByNode" -> GroupByNodeExecute(node, w)
      [] node.cls = "CountNode" -> CountNodeExecute(node, w, order)
      [] node.cls = "CountIfNode" -> CountIfNodeExecute(node, w)
      [] node.cls = "SumNode" -> SumNodeExecute(node, w, order)
      [] node.cls = "AvgNode" -> AvgNodeExecute(node, w, order)
      [] node.cls = "MinNode" -> MinNodeExecute(node, w, order)
      [] node.cls = "MaxNode" -> MaxNodeExecute(node, w, order)
      [] node.cls = "MultiAggNode" -> MultiAggNodeExecute(node, w, order)
      [] node.cls = "JoinNode" -> JoinNodeExecute(node, w, order)
      [] node.cls = "MergeNode" -> MergeNodeExecute(node, w)
      [] node.cls = "SaveNode" -> SaveNodeExecute(node, w)
      [] node.cls = "PrintNode" -> PrintNodeExecute(node, w)
      [] node.cls = "SchemaNode" -> SchemaNodeExecute(node, w)
      [] node.cls = "InspectNode" -> InspectNodeExecute(node, w)
      [] node.cls = "HeadNode" -> HeadNodeExecute(node, w)
      [] node.cls = "LogNode" -> LogNodeExecute(node, w)
      [] node.cls = "TimerNode" -> TimerNodeExecute(node, w)
      [] node.cls = "AssertNode" -> AssertNodeExecute(node, w)
      [] node.cls = "FillNode" -> FillNodeExecute(node, w, order)
      [] node.cls = "SetNode" -> SetNodeExecute(node, w)
      [] node.cls = "EnvNode" -> EnvNodeExecute(node, w)
      [] node.cls = "TryNode" -> TryNodeExecute(node, w, order)
      [] node.cls = "ParseDateNode" -> ParseDateNodeExecute(node, w)
      [] node.cls = "ExtractNode" -> ExtractNodeExecute(node, w)
      [] node.cls = "DateDiffNode" -> DateDiffNodeExecute(node, w)
      [] node.cls = "FilterDateNode" -> FilterDateNodeExecute(node, w)
      [] node.cls = "TruncateDateNode" -> TruncateDateNodeExecute(node, w)
      [] node.cls = "TsSortNode" -> TsSortNodeExecute(node, w, order)

(***************************************************************************)
(* The file system a pipeline starts with, and the nodes the pipelines of  *)
(* the model are made of.  The working directory is /s.                    *)
(***************************************************************************)
A == <<"a">>
B == <<"b">>
C == <<"c">>
Z == <<"z">>

\* a.csv: two rows of group 1, one row of group 2 with a null
TableA == Table(<<A, B>>, <<"Int64", "Int64">>, <<<<1, 2>>, <<1, 1>>, <<2, Null>>>>)
\* b.csv: a lookup table on the key a
TableB == Table(<<A, C>>, <<"Int64", "Int64">>, <<<<1, 5>>, <<3, 6>>>>)
\* /o/a.csv: data outside the directory /s
TableO == Table(<<A>>, <<"Int64">>, <<<<7>>>>)

FilterA == [cls |-> "FilterNode", column |-> A, operator |-> ">", value |-> <<"1">>]
FilterZ == [cls |-> "FilterNode", column |-> Z, operator |-> ">", value |-> <<"1">>]
FilterT == [cls |-> "FilterNode", column |-> B, operator |-> "<=", value |-> <<"$", "t">>]
SourceO == [cls |-> "SourceNode", file_path |-> <<"/", "o", "/", "a", ".", "c", "s", "v">>, chunk_size |-> None]

Files ==
    (<<"/", "s", "/", "a", ".", "c", "s", "v">> :> DataFile("csv", TableA))
    @@ (<<"/", "s", "/", "b", ".", "c", "s", "v">> :> DataFile("csv", TableB))
    @@ (<<"/", "o", "/", "a", ".", "c", "s", "v">> :> DataFile("csv", TableO))
    @@ (<<"/", "s", "/", "i", ".", "p", "p", "l">> :> PplFile(<<<<"f", "i", "l", "t", "e", "r", " ", "a", " ", ">", " ", "1">>>>))
    @@ (<<"/", "s", "/", "j", ".", "p", "p", "l">> :> PplFile(<<<<"f", "i", "l", "t", "e", "r", " ", "a", " ", ">", " ", "1">>,
                      <<"f", "i", "l", "t", "e", "r", " ", "z", " ", ">", " ", "1">>>>))
    @@ (<<"/", "s", "/", "k", ".", "p", "p", "l">> :> PplFile(<<<<"s", "o", "u", "r", "c", "e", " ", "\"", "/", "o", "/", "a", ".", "c", "s", "v", "\"">>>>))
    @@ (<<"/", "s", "/", "x", ".", "p", "p", "l">>
          :> PplFile(<<<<"#", " ", "d", "r", "o", "p", ",", " ", "t", "h", "e", "n", " ", "s", "o", "r", "t">>,
                      <<"d", "r", "o", "p", " ", "b", " ", " ", "#", " ", "n", "o", "t", " ", "n", "e", "e", "d", "e", "d">>,
                      <<>>,
                      <<"s", "o", "r", "t", " ", "b">>>>))
    @@ (<<"/", "o", "/", "i", ".", "p", "p", "l">> :> PplFile(<<<<"f", "i", "l", "t", "e", "r", " ", "a", " ", ">", " ", "1">>>>))

\* data-loading commands
LoadNodes ==
    {[cls |-> "SourceNode", file_path |-> p, chunk_size |-> None] :
        p \in {<<"a", ".", "c", "s", "v">>, <<"/", "o", "/", "a", ".", "c", "s", "v">>, <<".", ".", "/", "o", "/", "a", ".", "c", "s", "v">>, <<"m", ".", "c", "s", "v">>, <<"$", "e">>, <<"$", "u">>}}
    \cup {[cls |-> "ForeachNode", pattern |-> p] : p \in {<<"/", "s", "/", "*", ".", "c", "s", "v">>, <<"/", "o", "/", "*", ".", "c", "s", "v">>, <<"/", "o", "/", "*", ".", "x">>}}
    \cup {[cls |-> "IncludeNode", file_path |-> p] :
            p \in {<<"i", ".", "p", "p", "l">>, <<"j", ".", "p", "p", "l">>, <<"k", ".", "p", "p", "l">>, <<"x", ".", "p", "p", "l">>, <<"/", "o", "/", "i", ".", "p", "p", "l">>, <<"m", ".", "p", "p", "l">>, <<"a", ".", "c", "s", "v">>}}

\* commands that read a second file, or write one
FileNodes ==
    {[cls |-> "JoinNode", file_path |-> p, key |-> k, how |-> h] :
        p \in {<<"b", ".", "c", "s", "v">>, <<"/", "o", "/", "a", ".", "c", "s", "v">>, <<"m", ".", "c", "s", "v">>}, k \in {A, B}, h \in {"inner", "outer"}}
    \cup {[cls |-> "MergeNode", file_path |-> p] : p \in {<<"b", ".", "c", "s", "v">>, <<"/", "o", "/", "a", ".", "c", "s", "v">>, <<"m", ".", "c", "s", "v">>}}
    \cup {[cls |-> "SaveNode", file_path |-> p] : p \in {<<"o", "u", "t", ".", "c", "s", "v">>, <<"/", "o", "/", "o", "u", "t", ".", "c", "s", "v">>, <<"/", "s", "/", "d", "/", "o", "u", "t", ".", "j", "s", "o", "n">>}}

\* filter a == 1 or a == 2 and b > 1
FilterOrAnd ==
    [cls |-> "CompoundFilterNode", logic |-> <<"or", "and">>,
     conditions |-> <<[column |-> A, operator |-> "==", value |-> <<"1">>],
                      [column |-> A, operator |-> "==", value |-> <<"2">>],
                      [column |-> B, operator |-> ">", value |-> <<"1">>]>>]

\* commands that rebind the table and are not aggregations
RebindNodes ==
    {FilterA, FilterZ,
     [cls |-> "FilterNode", column |-> A, operator |-> "~", value |-> <<"1">>],
     FilterT,
     FilterOrAnd,
     [cls |-> "CompoundFilterNode", logic |-> <<"and">>,
      conditions |-> <<[column |-> A, operator |-> "==", value |-> <<"1">>],
                       [column |-> B, operator |-> ">", value |-> <<"1">>]>>],
     [cls |-> "CompoundFilterNode", logic |-> <<"or">>,
      conditions |-> <<[column |-> Z, operator |-> "==", value |-> <<"1">>],
                       [column |-> B, operator |-> ">", value |-> <<"$", "u">>]>>],
     [cls |-> "SelectNode", columns |-> <<B, A>>],
     [cls |-> "SelectNode", columns |-> <<Z>>],
     [cls |-> "DropNode", columns |-> <<B>>],
     [cls |-> "LimitNode", n |-> 1],
     [cls |-> "DistinctNode"],
     [cls |-> "SampleNode", n |-> Some(1), pct |-> None],
     [cls |-> "SampleNode", n |-> None, pct |-> Some(50)],
     [cls |-> "SortNode", columns |-> <<A, B>>, ascending |-> <<FALSE, TRUE>>],
     [cls |-> "RenameNode", old_name |-> B, new_name |-> C],
     [cls |-> "AddNode", column |-> C, expression |-> <<"a", "+", "b">>],
     [cls |-> "AddNode", column |-> C, expression |-> <<"a", "*", "$", "u">>],
     [cls |-> "AddIfNode", column |-> C, cond_col |-> A, cond_op |-> ">", cond_val |-> <<"1">>,
      true_val |-> <<"1">>, false_val |-> <<"a">>],
     [cls |-> "TrimNode", column |-> A],
     [cls |-> "UppercaseNode", column |-> A],
     [cls |-> "LowercaseNode", column |-> Z],
     [cls |-> "CastNode", column |-> A, type_name |-> "float"],
     [cls |-> "CastNode", column |-> A, type_name |-> "uuid"],
     [cls |-> "ReplaceNode", column |-> A, old_value |-> <<"1">>, new_value |-> <<"3">>],
     [cls |-> "PivotNode", index |-> A, column |-> B, value |-> B],
     [cls |-> "FillNode", column |-> B, strategy |-> <<"0">>],
     [cls |-> "FillNode", column |-> B, strategy |-> <<"m", "o", "d", "e">>],
     [cls |-> "FillNode", column |-> B, strategy |-> <<"D", "r", "o", "p">>],
     [cls |-> "ParseDateNode", column |-> A, format |-> <<"%", "d">>],
     [cls |-> "ExtractNode", part |-> "weekday", column |-> A, new_column |-> C],
     [cls |-> "DateDiffNode", col1 |-> A, col2 |-> B, new_column |-> C, unit |-> "hours"],
     [cls |-> "FilterDateNode", column |-> A, operator |-> ">=", date_str |-> <<"2", "0", "2", "4", "-", "0", "1", "-", "0", "2">>],
     [cls |-> "FilterDateNode", column |-> A, operator |-> ">=", date_str |-> <<"2", "0", "2", "4", "-", "1", "-", "2">>],
     [cls |-> "TruncateDateNode", column |-> A, unit |-> "week"],
     [cls |-> "TsSortNode", column |-> B]}

\* agg sum b, count and agg sum b, max b
AggSumCount ==
    [cls |-> "MultiAggNode", specs |-> <<[verb |-> "sum", col |-> Some(B)],
                                        [verb |-> "count", col |-> None]>>]
AggSumMax ==
    [cls |-> "MultiAggNode", specs |-> <<[verb |-> "sum", col |-> Some(B)],
                                        [verb |-> "max", col |-> Some(B)]>>]

\* group by and the aggregations
GroupNodes ==
    {[cls |-> "GroupByNode", columns |-> <<A>>],
     [cls |-> "GroupByNode", columns |-> <<Z>>],
     [cls |-> "CountNode"],
     [cls |-> "SumNode", column |-> B],
     [cls |-> "AvgNode", column |-> B],
     [cls |-> "MinNode", column |-> B],
     [cls |-> "MaxNode", column |-> Z],
     AggSumCount,
     [cls |-> "MultiAggNode", specs |-> <<[verb |-> "max", col |-> None]>>]}

\* aggregations with several specs, and commands that read their result
MultiAggNodes ==
    {[cls |-> "GroupByNode", columns |-> <<A>>], AggSumCount, AggSumMax,
     [cls |-> "CountNode"], [cls |-> "PrintNode"],
     [cls |-> "SaveNode", file_path |-> <<"o", "u", "t", ".", "c", "s", "v">>]}

\* commands that leave the table alone
QuietNodes ==
    {[cls |-> "CountIfNode", column |-> A, operator |-> "==", value |-> <<"1">>],
     [cls |-> "PrintNode"], [cls |-> "SchemaNode"], [cls |-> "InspectNode"],
     [cls |-> "HeadNode", n |-> 1],
     [cls |-> "LogNode", message |-> <<"\"", "a", "t", " ", "$", "t", "\"">>],
     [cls |-> "TimerNode", action |-> "start", label |-> <<"x">>],
     [cls |-> "TimerNode", action |-> "lap", label |-> <<"x">>],
     [cls |-> "TimerNode", action |-> "stop", label |-> <<"x">>],
     [cls |-> "TimerNode", action |-> "reset", label |-> <<"x">>],
     [cls |-> "AssertNode", column |-> A, operator |-> ">", value |-> <<"0">>],
     [cls |-> "AssertNode", column |-> A, operator |-> ">", value |-> <<"1">>],
     [cls |-> "SetNode", name |-> <<"t">>, value |-> <<"\"", "1", "\"">>],
     [cls |-> "SetNode", name |-> <<"t">>, value |-> <<"'", "\"", "2", "\"", "'">>],
     [cls |-> "SetNode", name |-> Sandbox, value |-> <<"/", "s">>],
     [cls |-> "SetNode", name |-> Sandbox, value |-> <<"'", ".", "'">>],
     [cls |-> "EnvNode", var_name |-> <<"e">>],
     [cls |-> "EnvNode", var_name |-> <<"u">>]}


\* try blocks: a body of up to MaxBody commands and one on_error line
TryBodies ==
    LET body == {FilterA, FilterZ,
                 [cls |-> "DropNode", columns |-> <<B>>],
                 [cls |-> "SetNode", name |-> <<"t">>, value |-> <<"1">>]}
    IN  UNION {[1..n -> body] : n \in 0..MaxBody}

Handlers ==
    {[error_action |-> <<"s", "k", "i", "p">>, on_error_nodes |-> <<>>],
     [error_action |-> <<"L", "O", "G", " ", "\"", "a", "t", " ", "$", "t", "\"">>, on_error_nodes |-> <<>>],
     [error_action |-> <<"f", "i", "l", "l", " ", "a", " ", "0">>,
      on_error_nodes |-> <<[cls |-> "FillNode", column |-> A, strategy |-> <<"0">>]>>],
     [error_action |-> <<"s", "e", "l", "e", "c", "t", " ", "b">>,
      on_error_nodes |-> <<[cls |-> "SelectNode", columns |-> <<B>>]>>]}

TryNodes ==
    {[cls |-> "TryNode", body |-> b, on_error_nodes |-> h.on_error_nodes,
      error_action |-> h.error_action] : b \in TryBodies, h \in Handlers}

\* try blocks whose body holds a try block
NestedTryNodes ==
    LET DropB == [cls |-> "DropNode", columns |-> <<B>>]
        SelectB == [cls |-> "SelectNode", columns |-> <<B>>]
        inner == [cls |-> "TryNode", body |-> <<DropB, FilterZ>>, on_error_nodes |-> <<SelectB>>,
                  error_action |-> <<"s", "e", "l", "e", "c", "t", " ", "b">>]
        \* filter z fails and drop b handles it
        handled == [cls |-> "TryNode", body |-> <<FilterZ>>, on_error_nodes |-> <<DropB>>,
                    error_action |-> <<"d", "r", "o", "p", " ", "b">>]
    IN  {[cls |-> "TryNode", body |-> <<handled, FilterA>>, on_error_nodes |-> <<SelectB>>,
          error_action |-> <<"s", "e", "l", "e", "c", "t", " ", "b">>],
         [cls |-> "TryNode", body |-> <<handled, FilterZ>>, on_error_nodes |-> <<>>,
          error_action |-> <<"s", "k", "i", "p">>],
         [cls |-> "TryNode", body |-> <<inner>>, on_error_nodes |-> <<>>,
          error_action |-> <<"s", "k", "i", "p">>],
         [cls |-> "TryNode", body |-> <<inner, FilterA>>, on_error_nodes |-> <<SelectB>>,
          error_action |-> <<"s", "e", "l", "e", "c", "t", " ", "b">>]}

SourceA == [cls |-> "SourceNode", file_path |-> <<"a", ".", "c", "s", "v">>, chunk_size |-> None]
SetSandbox == [cls |-> "SetNode", name |-> Sandbox, value |-> <<"/", "s">>]

\* sources read in chunks
ChunkedSources ==
    {[cls |-> "SourceNode", file_path |-> p, chunk_size |-> Some(n)] :
        p \in {<<"a", ".", "c", "s", "v">>, <<"/", "o", "/", "a", ".", "c", "s", "v">>, <<"m", ".", "c", "s", "v">>, <<"$", "u">>}, n \in {1, 2}}

\* The pipelines of the model: each is written with the nodes of one of
\* these sets.
Pipelines ==
    {{SourceA} \cup GroupNodes \cup RebindNodes,
     {SourceA, FilterT} \cup GroupNodes \cup QuietNodes,
     {SourceA, SetSandbox} \cup FileNodes \cup LoadNodes,
     {SourceA, SetSandbox, FilterA} \cup TryNodes \cup NestedTryNodes,
     ChunkedSources \cup {SourceA, SetSandbox, FilterA, FilterZ} \cup GroupNodes,
     {SourceA} \cup MultiAggNodes}

(***************************************************************************)
(* executor.py: run_pipeline and _run_chunked_pipeline.                    *)
(***************************************************************************)
\* _CHUNK_SAFE_NODE_NAMES
ChunkSafeNodeNames ==
    {"FilterNode", "CompoundFilterNode", "SelectNode", "DropNode", "CastNode", "RenameNode",
     "TrimNode", "UppercaseNode", "LowercaseNode", "AddNode", "AddIfNode", "ReplaceNode",
     "FillNode"}

\* the exception classes the executor's except clauses name
Caught == {"AssertionError", "FileNotFoundError", "KeyError", "RuntimeError", "ValueError"}

\* what leaves the try statement around node.execute(context)
Reraise(node, exc) ==
    IF exc.cls \in Caught THEN Exc(exc.cls, <<"[" \o node.cls \o "]">> \o StrOf(exc)) ELSE exc

\* getattr(nodes[0], "chunk_size", None) is truthy
StartsChunked(node) ==
    node.cls = "SourceNode" /\ node.chunk_size # None /\ node.chunk_size.v # 0

NoResult == Result([cls |-> "none"], World(None, <<>>), None, <<>>, NoExc, <<>>, <<>>)
NotChunked == [source_node |-> None, chunk_phase |-> <<>>, chunks |-> <<>>, chunks_out |-> <<>>]

\* pd.read_csv(path, chunksize=n): the rows of the file, n at a time
RECURSIVE Chunks(_, _)
Chunks(t, n) ==
    IF t.rows = <<>> THEN <<>>
    ELSE <<[t EXCEPT !.rows = SubSeq(t.rows, 1, Min2(n, Len(t.rows)))]>>
         \o Chunks([t EXCEPT !.rows = SubSeq(t.rows, Min2(n, Len(t.rows)) + 1, Len(t.rows))], n)

\* main() before it is called, and when run_pipeline is called without it
NoMain == [ppl_file |-> None, lines |-> <<>>, nodes |-> None, error |-> NoExc, rc |-> None]

\* the nodes the loop of the executor may meet next: the next node of the
\* list main parsed, or any node of the pipeline's commands
NextNodes ==
    IF main.nodes = None THEN commands
    ELSE IF pc < Len(main.nodes.v) THEN {main.nodes.v[pc + 1]}
    ELSE {}

\* the loop that splits remaining_nodes: the nodes of the chunk phase
\* a split that sends every chunk-safe command to the per-chunk phase
ChunkSafeOnes(remaining_nodes) ==
    SelectSeq(remaining_nodes, LAMBDA node : node.cls \in ChunkSafeNodeNames)

RECURSIVE ChunkPrefix(_)
ChunkPrefix(remaining_nodes) ==
    IF remaining_nodes # <<>> /\ Head(remaining_nodes).cls \in ChunkSafeNodeNames
    THEN <<Head(remaining_nodes)>> \o ChunkPrefix(Tail(remaining_nodes))
    ELSE <<>>

\* the chunk phases the split may give
ChunkPhases ==
    IF main.nodes = None
    THEN UNION {[1..k -> {n \in commands : n.cls \in ChunkSafeNodeNames}] :
                   k \in 0..MaxChunkPhase}
    ELSE {ChunkPrefix(Tail(main.nodes.v))}

Init ==
    /\ commands \in Pipelines
    /\ context = PipelineContext(None, <<>>, None)
    /\ fs = Files
    /\ status = "running"
    /\ raised = NoExc
    /\ returned = None
    /\ pc = 0
    /\ chunked = NotChunked
    /\ last = NoResult
    /\ main = NoMain

\* the outcome of one "try: node.execute(context) except ...: raise ..."
Dispatched(r, next_status) ==
    /\ last' = r
    /\ context' = r.ctx
    /\ fs' = r.fs
    /\ pc' = pc + 1
    /\ raised' = IF Raised(r.exc) THEN Reraise(r.node, r.exc) ELSE NoExc
    /\ status' = IF Raised(r.exc) THEN "raised" ELSE next_status
    /\ UNCHANGED <<commands, returned, chunked, main>>

\* run_pipeline, normal mode: one iteration of the loop over the nodes
RunNode ==
    /\ status = "running"
    /\ pc < MaxNodes
    /\ \E node \in NextNodes, order \in Orders :
          /\ pc = 0 => ~StartsChunked(node)
          /\ Dispatched(Execute(node, World(context, fs), order), "running")

\* run_pipeline hands over to _run_chunked_pipeline, which resolves the
\* path, splits the remaining nodes and opens the file
RunChunked ==
    /\ status = "running"
    /\ pc = 0
    /\ \E source_node \in {n \in NextNodes : StartsChunked(n)},
          chunk_phase \in ChunkPhases :
          LET sub == SubstituteVars(source_node.file_path, context)
              path == sub.s
              w == World(context, fs)
              exc == IF Raised(sub.exc) THEN sub.exc
                     ELSE IF Raised(CheckPathSandbox(path, context))
                          THEN CheckPathSandbox(path, context)
                     ELSE IF ~Exists(path, fs)
                          THEN Exc("FileNotFoundError", <<"No such file or directory">>)
                     ELSE NoExc
          IN  /\ last' = Result([cls |-> "_run_chunked_pipeline", source_node |-> source_node],
                                w, context, fs, exc,
                                IF Raised(exc) THEN <<>> ELSE <<IO("read", path, context)>>,
                                <<>>)
              /\ raised' = exc
              /\ status' = IF Raised(exc) THEN "raised" ELSE "chunks"
              /\ chunked' = IF Raised(exc) THEN chunked
                            ELSE [source_node |-> Some(source_node),
                                  chunk_phase |-> chunk_phase,
                                  chunks |-> Chunks(FileAt(path, fs).table,
                                                    source_node.chunk_size.v),
                                  chunks_out |-> <<>>]
              /\ pc' = 1
              /\ UNCHANGED <<commands, context, fs, returned, main>>

\* _run_chunked_pipeline: one iteration of the loop over the chunks
RunChunk ==
    /\ status = "chunks"
    /\ chunked.chunks # <<>>
    /\ \E order \in Orders,
          chunk_ctx \in {PipelineContext(Some(Head(chunked.chunks)), context.variables,
                                         context.sandbox_dir)} :
       \E rs \in {RunNodes(chunked.chunk_phase, World(chunk_ctx, fs), order)} :
          LET after == After(rs, World(chunk_ctx, fs))
          IN  /\ last' = IF rs = <<>> THEN last ELSE rs[Len(rs)]
              /\ fs' = after.fs
              /\ IF Failed(rs)
                 THEN /\ raised' = Reraise(rs[Len(rs)].node, rs[Len(rs)].exc)
                      /\ status' = "raised"
                      /\ UNCHANGED chunked
                 ELSE /\ chunked' = [chunked EXCEPT
                            !.chunks = Tail(@),
                            !.chunks_out = IF after.ctx.df # None /\ after.ctx.df.v.rows # <<>>
                                           THEN Append(@, after.ctx.df.v) ELSE @]
                      /\ UNCHANGED <<raised, status>>
              /\ UNCHANGED <<commands, context, returned, pc, main>>

\* _run_chunked_pipeline: the chunks are concatenated into context.df
Concat ==
    /\ status = "chunks"
    /\ chunked.chunks = <<>>
    /\ context' = [context EXCEPT
          !.df = IF chunked.chunks_out # <<>> THEN Some(ConcatAll(chunked.chunks_out))
                 ELSE Some(Table(<<>>, <<>>, <<>>)),
          !.grouped = None]
    /\ status' = "post"
    /\ pc' = pc + Len(chunked.chunk_phase)
    /\ UNCHANGED <<commands, fs, raised, returned, chunked, last, main>>

\* _run_chunked_pipeline: one iteration of the loop over the post phase,
\* whose first node is one the split did not put into the chunk phase
RunPostNode ==
    /\ status = "post"
    /\ pc < MaxNodes
    /\ \E node \in NextNodes, order \in Orders :
          /\ pc = 1 + Len(chunked.chunk_phase) => node.cls \notin ChunkSafeNodeNames
          /\ Dispatched(Execute(node, World(context, fs), order), "post")

\* "return context.df" of run_pipeline and of _run_chunked_pipeline
ReturnDf ==
    /\ status \in {"running", "post"}
    /\ returned' = context.df
    /\ status' = "returned"
    /\ main.nodes # None => pc = Len(main.nodes.v)
    /\ UNCHANGED <<commands, context, fs, raised, pc, chunked, last, main>>

Next == RunNode \/ RunChunked \/ RunChunk \/ Concat \/ RunPostNode \/ ReturnDf

Spec == Init /\ [][Next]_vars

(***************************************************************************)
(* Properties.  last is the result of the last execute call the executor   *)
(* made; Calls(last) are that call and the calls made inside it by try     *)
(* and include nodes.                                                      *)
(***************************************************************************)
RECURSIVE Calls(_)
Calls(r) ==
    {r} \cup UNION {Calls(r.body[i]) : i \in 1..Len(r.body)}
        \cup UNION {Calls(r.handler[i]) : i \in 1..Len(r.handler)}

\* the calls of the last dispatch on nodes that run no other node
NodeCalls ==
    {r \in Calls(last) :
        r.node.cls \notin {"none", "TryNode", "IncludeNode", "_run_chunked_pipeline"}}
TryCalls == {r \in Calls(last) : r.node.cls = "TryNode"}

LoadingClasses == {"SourceNode", "ForeachNode"}

AggregationClasses == {"CountNode", "SumNode", "AvgNode", "MinNode", "MaxNode", "MultiAggNode"}

\* non-aggregation commands that rebind the table
RebindingClasses ==
    {"FilterNode", "CompoundFilterNode", "SelectNode", "DropNode", "LimitNode", "DistinctNode",
     "SampleNode", "SortNode", "RenameNode", "AddNode", "AddIfNode", "TrimNode",
     "UppercaseNode", "LowercaseNode", "CastNode", "ReplaceNode", "PivotNode", "FillNode",
     "JoinNode", "MergeNode", "ParseDateNode", "ExtractNode", "DateDiffNode",
     "FilterDateNode", "TruncateDateNode", "TsSortNode"}

\* commands that read the table without rebinding it
ReadingClasses ==
    {"GroupByNode", "CountIfNode", "SaveNode", "PrintNode", "SchemaNode", "InspectNode",
     "HeadNode", "AssertNode"}

\* a context has no table
NoTable(c) == c.lf \in {Absent, None}
\* a context has no pending grouping
NoGrouping(c) == c.group_by_cols \in {Absent, None}

\* C1: a command that reads or mutates the table, executed on a freshly
\* initialised context, fails with a RuntimeError saying that no data is
\* loaded, and the context still has no table.
C1_NoDataLoadedIsRuntimeError ==
    \A r \in NodeCalls :
        /\ r.pre = PipelineContext(None, <<>>, None)
        /\ r.node.cls \in RebindingClasses \cup AggregationClasses \cup ReadingClasses
        => /\ r.exc.cls = "RuntimeError"
           /\ NoTable(r.ctx)

\* C2 as stated: whenever a non-aggregation command that mutates the table
\* starts executing, there is no pending grouping.
C2_NoGroupingAtStart ==
    \A r \in NodeCalls : r.node.cls \in RebindingClasses => NoGrouping(r.pre)

\* C2, amended: a pending grouping is set by a successful group by and by
\* nothing else, so a non-aggregation command that mutates the table may
\* start with one; it clears the grouping when it succeeds and leaves the
\* grouping as it found it when it fails.
C2_GroupingAtStartComesFromGroupBy ==
    \A r \in NodeCalls :
        /\ r.ctx.group_by_cols # r.pre.group_by_cols /\ ~NoGrouping(r.ctx)
           => /\ r.node.cls = "GroupByNode"
              /\ ~Raised(r.exc)
              /\ r.ctx.group_by_cols = Some(r.node.columns)
        /\ r.node.cls \in RebindingClasses
           => IF Raised(r.exc) THEN r.ctx.group_by_cols = r.pre.group_by_cols
              ELSE r.ctx.group_by_cols = None

\* a filter started with a pending grouping and cleared it
C2_Witness ==
    /\ last.node.cls = "FilterNode"
    /\ ~NoGrouping(last.pre)
    /\ ~Raised(last.exc)
    /\ context.group_by_cols = None

\* the distinct keys of a table under a grouping
GroupKeys(t, cols) == {[i \in 1..Len(cols) |-> Cell(t, row, cols[i])] : row \in Range(t.rows)}

\* C3: an aggregation that succeeds while a grouping is pending gives one
\* row per group, with the group columns first, and clears the grouping; an
\* aggregation that runs with no grouping pending gives a single row, or
\* fails if it is agg.
C3_AggregationConsumesGrouping ==
    \A r \in NodeCalls :
        r.node.cls \in AggregationClasses /\ ~NoTable(r.pre) /\ Resolves(r.pre.lf.v)
        => /\ ~NoGrouping(r.pre) /\ ~Raised(r.exc)
              => /\ r.ctx.group_by_cols = None
                 /\ SubSeq(r.ctx.lf.v.cols, 1, Len(r.pre.group_by_cols.v)) = r.pre.group_by_cols.v
                 /\ Len(r.ctx.lf.v.rows)
                      = Cardinality(GroupKeys(r.pre.lf.v, r.pre.group_by_cols.v))
                 /\ GroupKeys(r.ctx.lf.v, r.pre.group_by_cols.v)
                      = GroupKeys(r.pre.lf.v, r.pre.group_by_cols.v)
           /\ NoGrouping(r.pre) /\ ~Raised(r.exc)
              => /\ r.node.cls # "MultiAggNode"
                 /\ Len(r.ctx.lf.v.rows) = 1
                 /\ Len(r.ctx.lf.v.cols) = 1
                 /\ r.ctx.group_by_cols = None
           /\ NoGrouping(r.pre) /\ r.node.cls = "MultiAggNode" => r.exc.cls = "RuntimeError"

\* a count ran ungrouped on the table a grouped aggregation had produced
C3_Witness ==
    /\ last.node.cls = "CountNode"
    /\ ~Raised(last.exc)
    /\ last.pre.group_by_cols = None
    /\ last.pre.lf.v.cols = <<A, B>>
    /\ Len(last.pre.lf.v.rows) = 2
    /\ last.ctx.lf.v.rows = <<<<2>>>>
    /\ pc = 4

\* C4: after a successful loading command, and after a successful
\* non-aggregation command that rebinds the table, no grouping is pending.
C4_LoadAndRebindClearGrouping ==
    \A r \in NodeCalls :
        r.node.cls \in LoadingClasses \cup RebindingClasses /\ ~Raised(r.exc)
        => r.ctx.group_by_cols = None /\ ~NoTable(r.ctx)

\* a sort was given a pending grouping and succeeded
C4_Witness ==
    /\ last.node.cls = "SortNode"
    /\ last.pre.group_by_cols = Some(<<A>>)
    /\ ~Raised(last.exc)

\* the on_error line of a try
IsSkip(node) == Lower(StripChars(node.error_action, Spaces)) = <<"s", "k", "i", "p">>
IsLog(node) == StartsWith(Lower(StripChars(node.error_action, Spaces)), <<"l", "o", "g", " ">>)
\* the message of an on_error log line with its variables replaced, in the
\* context the failed body left
LogMessage(r) ==
    SubstituteVars(
        StripChars(StripChars(SubSeq(r.node.error_action, 5, Len(r.node.error_action)), Spaces),
                   Quotes),
        r.body[Len(r.body)].ctx)

C6_BodyInOrderHandlerOnce ==
    \A r \in TryCalls :
        /\ Len(r.body) <= Len(r.node.body)
        /\ \A i \in 1..Len(r.body) :
              /\ r.body[i].node = r.node.body[i]
              /\ r.body[i].pre = IF i = 1 THEN r.pre ELSE r.body[i - 1].ctx
              /\ i < Len(r.body) => ~Raised(r.body[i].exc)
        /\ ~Failed(r.body)
           => /\ Len(r.body) = Len(r.node.body)
              /\ r.invoked = 0
              /\ r.handler = <<>>
              /\ ~Raised(r.exc)
              /\ Len(r.out) = Len(Printed(r.body))
        /\ Failed(r.body)
           => /\ r.invoked = 1
              /\ Len(r.handler) <= Len(r.node.on_error_nodes)
              /\ \A i \in 1..Len(r.handler) : r.handler[i].node = r.node.on_error_nodes[i]
              /\ IsLog(r.node) /\ ~Raised(r.exc) => Len(r.out) = Len(Printed(r.body)) + 1

\* the first of two body commands raised and the second was not run
C6_Witness ==
    /\ last.node.cls = "TryNode"
    /\ Len(last.node.body) = 2
    /\ Len(last.body) = 1
    /\ Raised(last.body[1].exc)
    /\ last.invoked = 1
    /\ Len(last.handler) = 1

\* C7: a try does not roll back.  When a body command fails, what the
\* commands before it did to the context is kept: the handler commands start
\* in the context the body left, a try without handler commands ends in it,
\* and the executor goes on in the context the try ended in.
C7_NoRollback ==
    \A r \in TryCalls :
        Failed(r.body)
        => LET kept == r.body[Len(r.body)].ctx
           IN  /\ Len(r.body) >= 2 /\ r.body[Len(r.body)].node.cls # "TryNode"
                  => kept = r.body[Len(r.body) - 1].ctx
               /\ r.handler # <<>> => r.handler[1].pre = kept
               /\ r.handler = <<>> => r.ctx = kept
               /\ r.handler # <<>> => r.ctx = r.handler[Len(r.handler)].ctx
               /\ r = last => context = r.ctx

\* the body dropped column b and then failed; the handler command ran on the
\* table without b, and so does the rest of the pipeline
C7_Witness ==
    /\ last.node.cls = "TryNode"
    /\ Failed(last.body)
    /\ Len(last.body) = 2
    /\ ~NoTable(last.pre)
    /\ last.pre.lf.v.cols = <<A, B>>
    /\ last.handler # <<>>
    /\ last.handler[1].pre.lf.v.cols = <<A>>
    /\ ~Raised(last.exc)
    /\ context.lf.v.cols = <<A>>
    /\ status = "running"

\* C8: an error raised by a handler command leaves the try; at top level it
\* stops the pipeline, re-raised by the executor as the error of the try,
\* and inside the body of an enclosing try it invokes that try's handler.
C8_HandlerErrorPropagates ==
    \A r \in TryCalls :
        /\ Failed(r.handler)
           => /\ r.exc = r.handler[Len(r.handler)].exc
              /\ r = last => status = "raised" /\ raised = Reraise(r.node, r.exc)
        /\ \A i \in 1..Len(r.body) :
              r.body[i].node.cls = "TryNode" /\ Failed(r.body[i].handler)
              => /\ i = Len(r.body)
                 /\ r.invoked = 1
                 /\ IsSkip(r.node) => ~Raised(r.exc)

\* a handler command of a top-level try raised and the pipeline stopped
C8_Witness ==
    /\ last.node.cls = "TryNode"
    /\ Failed(last.body)
    /\ Failed(last.handler)
    /\ last.exc.cls = "KeyError"
    /\ status = "raised"
    /\ raised.cls = "KeyError"
    /\ raised.msg[1] = "[TryNode]"

\* the error classes the executor is to re-raise with the name of the command
Recognised ==
    {"AssertionError", "FileNotFoundError", "KeyError", "RuntimeError", "ValueError",
     "PermissionError"}

\* C9: when a top-level command the executor runs through its execute
\* method, in normal or in chunked mode, raises an error of a recognised
\* class, the error that leaves the executor has the same class and a
\* message that starts with the name of the command.
C9_RecognisedErrorsCarryCommandName ==
    /\ status = "raised"
    /\ last.node.cls # "_run_chunked_pipeline"
    /\ last.exc.cls \in Recognised
    => /\ raised.cls = last.exc.cls
       /\ raised.msg # <<>>
       /\ raised.msg[1] = "[" \o last.node.cls \o "]"

\* the commands that take a path, and the attribute that holds it
IOClasses == {"SourceNode", "ForeachNode", "IncludeNode", "JoinNode", "MergeNode", "SaveNode"}
PathOf(node) == IF node.cls = "ForeachNode" THEN node.pattern ELSE node.file_path

\* a path lies in a directory, both resolved
Inside(path, dir) ==
    Canonical(path) = Canonical(dir) \/ StartsWith(Canonical(path), Canonical(dir) \o <<"/">>)

\* a call of an I/O command with a sandbox set whose path, its variables
\* replaced, resolves outside the sandbox
Escapes(r) ==
    /\ r.node.cls \in IOClasses
    /\ r.pre.sandbox_dir # None
    /\ ~Raised(SubstituteVars(PathOf(r.node), r.pre).exc)
    /\ ~Inside(SubstituteVars(PathOf(r.node), r.pre).s, r.pre.sandbox_dir.v)

\* the files a call read, wrote or made directories for
Touched(r) == {i \in 1..Len(r.io) : r.io[i].op \in {"read", "write", "makedirs"}}

MaxSegments == 2

PathSegments == {<<"d">>, <<"d", "2">>, <<".", ".">>, <<".">>, <<"s">>}

RECURSIVE JoinSegments(_)
JoinSegments(segs) ==
    IF segs = <<>> THEN <<>>
    ELSE IF Len(segs) = 1 THEN segs[1]
    ELSE segs[1] \o <<"/">> \o JoinSegments(Tail(segs))

\* the paths written with at most MaxSegments segments, relative and absolute
ProbePaths ==
    UNION {{JoinSegments(segs), <<"/">> \o JoinSegments(segs)} :
              segs \in UNION {[1..k -> PathSegments] : k \in 0..MaxSegments}}

InitSandbox ==
    /\ commands = {}
    /\ context \in {PipelineContext(None, <<>>, s) :
                       s \in {None} \cup {Some(p) : p \in ProbePaths}}
    /\ fs = Files
    /\ status = "running"
    /\ raised = NoExc
    /\ returned = None
    /\ pc = 0
    /\ chunked = NotChunked
    /\ last = NoResult
    /\ main = NoMain

\* one call _check_path_sandbox(path, context)
CheckPath ==
    \E path \in ProbePaths :
       /\ last' = Result([cls |-> "_check_path_sandbox", path |-> path],
                         World(context, fs), context, fs,
                         CheckPathSandbox(path, context), <<>>, <<>>)
       /\ UNCHANGED <<commands, context, fs, status, raised, returned, pc, chunked, main>>

SpecSandbox == InitSandbox /\ [][CheckPath]_vars

\* the segments of the canonical form of a path
CanonicalSegments(path) ==
    NormSegments(SplitPath(IF path # <<>> /\ path[1] = "/" THEN path
                           ELSE Cwd \o <<"/">> \o path, <<>>, <<>>), <<>>)

\* the canonical path is the canonical sandbox directory, or is that
\* directory, a separator and more
WithinSandbox(path, dir) ==
    LET ps == CanonicalSegments(path)
        ss == CanonicalSegments(dir)
    IN  \/ ps = ss
        \/ /\ ss # <<>>
           /\ Len(ps) > Len(ss)
           /\ SubSeq(ps, 1, Len(ss)) = ss

SandboxChecked == last.node.cls = "_check_path_sandbox"

\* C11: with no sandbox directory every path passes the check; with one, a
\* path passes exactly when its canonical form is the canonical sandbox
\* directory or lies under it, so a sibling that only shares the prefix
\* (/d2 for the sandbox /d) and a path that leaves through ".." are rejected.
C11_SandboxAcceptsExactlyInside ==
    SandboxChecked =>
       /\ context.sandbox_dir = None => ~Raised(last.exc)
       /\ context.sandbox_dir # None =>
             /\ ~Raised(last.exc) <=> WithinSandbox(last.node.path, context.sandbox_dir.v)
             /\ Raised(last.exc) => last.exc.cls = "PermissionError"
             /\ /\ Canonical(context.sandbox_dir.v) = <<"/", "d">>
                /\ Canonical(last.node.path) \in {<<"/", "d", "2">>, <<"/", "s">>, <<"/">>}
                => Raised(last.exc)

\* the sandbox is /d and the path is its sibling /d2, which is rejected
C11_Witness ==
    /\ SandboxChecked
    /\ context.sandbox_dir = Some(<<"/", "d">>)
    /\ last.node.path = <<"/", "d", "2">>
    /\ Raised(last.exc)

(***************************************************************************)
(* Chunked runs against plain runs.                                        *)
(***************************************************************************)
\* run_pipeline on the source without its chunk size, followed by the
\* commands of the chunk phase: the calls it makes
PlainRun(order) ==
    RunNodes(<<[chunked.source_node.v EXCEPT !.chunk_size = None]>> \o chunked.chunk_phase,
             World(PipelineContext(None, context.variables, context.sandbox_dir), fs), order)

\* the rows of a table as a multiset
RowBag(t) ==
    [r \in Range(t.rows) |-> Cardinality({i \in DOMAIN t.rows : t.rows[i] = r})]

SameRowsAndSchema(t, u) ==
    t.cols = u.cols /\ t.dtypes = u.dtypes /\ RowBag(t) = RowBag(u)

\* the chunk phase of a chunked run has failed
ChunkPhaseFailed ==
    chunked # NotChunked /\ status = "raised" /\ pc = 1

\* the chunks of a chunked run have just been concatenated
ChunksConcatenated ==
    chunked # NotChunked /\ status = "post" /\ pc = 1 + Len(chunked.chunk_phase)

\* C12: a source read in chunks and followed by chunk-safe commands gives
\* what the same source read whole and followed by the same commands gives:
\* the chunked run fails in its chunk phase only if the plain run fails, and
\* the table it holds after the concatenation has the rows (as a multiset)
\* and the schema of the table that the plain run returns.
C12_ChunkedRunEqualsPlainRun ==
    \A order \in Orders :
       \A rs \in {IF chunked = NotChunked THEN <<>> ELSE PlainRun(order)} :
          /\ ChunkPhaseFailed => Failed(rs)
          /\ ChunksConcatenated =>
                /\ ~Failed(rs)
                /\ \E plain \in {After(rs, World(context, fs)).ctx.df} :
                      /\ plain # None
                      /\ SameRowsAndSchema(context.df.v, plain.v)

\* the first command of the post phase of a chunked run has just been called
FirstPostCall ==
    /\ chunked # NotChunked
    /\ status \in {"post", "raised"}
    /\ pc = 2 + Len(chunked.chunk_phase)

\* C13: in a chunked run the commands after the chunk phase run once the
\* chunks are concatenated and operate on the full result: the first of them
\* that reads the table finds the concatenated table bound and works on it.
C13_PostPhaseSeesFullResult ==
    /\ FirstPostCall
    /\ last.node.cls \in AggregationClasses \cup RebindingClasses \cup ReadingClasses
    => /\ ~NoTable(last.pre)
       /\ last.pre.lf = last.pre.df
       /\ last.exc.cls # "AttributeError"

(***************************************************************************)
(* The value run_pipeline returns.                                         *)
(***************************************************************************)
\* C14: run_pipeline returns the table the context holds after the last
\* command, and None only when the context holds no table.
C14_ReturnsTheContextTable ==
    status = "returned" =>
       /\ returned = None <=> NoTable(context)
       /\ ~NoTable(context) => returned = context.lf

(***************************************************************************)
(* main.py: main(argv) reads the file, parses its lines and runs the       *)
(* nodes.  The file lies in the working directory, so the chdir to its     *)
(* directory changes nothing.                                              *)
(***************************************************************************)
MaxFileLines == 3

\* raw lines of the file main is given
RawLines ==
    {<<"s", "o", "u", "r", "c", "e", " ", "\"", "a", ".", "c", "s", "v", "\"">>,
     <<"s", "o", "u", "r", "c", "e", " ", "\"", "a", ".", "c", "s", "v", "\"", " ", "c", "h", "u", "n", "k", " ", "2">>,
     <<"s", "e", "t", " ", "t", " ", "=", " ", "1">>,
     <<"s", "a", "v", "e", " ", "\"", "o", "u", "t", ".", "c", "s", "v", "\"", " ", " ", "#", " ", "k", "e", "e", "p">>,
     <<"b", "o", "g", "u", "s">>,
     <<"s", "o", "r", "t", " ", "b">>,
     <<"i", "n", "c", "l", "u", "d", "e", " ", "\"", "x", ".", "p", "p", "l", "\"">>,
     <<"#", " ", "n", "o", "t", "e">>,
     <<"d", "r", "o", "p", " ", "b">>,
     <<"p", "r", "i", "n", "t">>}

MainFile == <<"m", "a", "i", "n", ".", "p", "p", "l">>

InitMain ==
    /\ commands = {}
    /\ context = PipelineContext(None, <<>>, None)
    /\ fs \in {(Canonical(MainFile) :> PplFile(raw_lines)) @@ Files :
                  raw_lines \in UNION {[1..n -> RawLines] : n \in 0..MaxFileLines}}
    /\ status = "start"
    /\ raised = NoExc
    /\ returned = None
    /\ pc = 0
    /\ chunked = NotChunked
    /\ last = NoResult
    /\ main \in {[NoMain EXCEPT !.ppl_file = Some(f)] :
                    f \in {MainFile, <<"n", "o", "n", "e", ".", "p", "p", "l">>, <<"a", ".", "c", "s", "v">>}}

Exited(rc) == /\ status' = "exited"
              /\ UNCHANGED <<commands, context, fs, raised, returned, pc, chunked, last>>

\* main, step 1: read_ppl_file(ppl_file)
MainRead ==
    /\ status = "start"
    /\ \E r \in {ReadPplFile(main.ppl_file.v, fs)} :
          IF Raised(r.exc)
          THEN main' = [main EXCEPT !.error = r.exc, !.rc = Some(1)] /\ Exited(1)
          ELSE IF r.lines = <<>>
               THEN main' = [main EXCEPT !.rc = Some(0)] /\ Exited(0)
          ELSE /\ main' = [main EXCEPT !.lines = r.lines]
               /\ status' = "read"
               /\ UNCHANGED <<commands, context, fs, raised, returned, pc, chunked, last>>

\* a main that runs the commands it could parse before the bad line
RECURSIVE ValidPrefix(_, _)
ValidPrefix(lines, k) ==
    IF k = 0 \/ ~Raised(ParseLines(SubSeq(lines, 1, k)).exc) THEN k
    ELSE ValidPrefix(lines, k - 1)
MainParseRunsValidPrefix ==
    /\ status = "read"
    /\ \E p \in {ParseLines(SubSeq(main.lines, 1, ValidPrefix(main.lines, Len(main.lines))))} :
          /\ main' = [main EXCEPT !.nodes = Some(p.nodes)]
          /\ status' = "running"
          /\ UNCHANGED <<commands, context, fs, raised, returned, pc, chunked, last>>

\* main, step 2: parse_lines(lines)
MainParse ==
    /\ status = "read"
    /\ \E p \in {ParseLines(main.lines)} :
          IF Raised(p.exc)
          THEN main' = [main EXCEPT !.error = p.exc, !.rc = Some(1)] /\ Exited(1)
          ELSE /\ main' = [main EXCEPT !.nodes = Some(p.nodes)]
               /\ status' = "running"
               /\ UNCHANGED <<commands, context, fs, raised, returned, pc, chunked, last>>

\* main, steps 3 and 4: run_pipeline has returned or raised
MainExit ==
    /\ status \in {"returned", "raised"}
    /\ main.ppl_file # None
    /\ main' = [main EXCEPT !.error = raised,
                            !.rc = IF status = "raised" THEN Some(1) ELSE Some(0)]
    /\ Exited(main'.rc.v)

NextMain ==
    \/ MainRead \/ MainParse
    \/ RunNode \/ RunChunked \/ RunChunk \/ Concat \/ RunPostNode \/ ReturnDf
    \/ MainExit

SpecMain == InitMain /\ [][NextMain]_vars

(***************************************************************************)
(* parse_lines on its own: the specification draws the lines and parses    *)
(* them.                                                                   *)
(***************************************************************************)
MaxLines == 5

\* lines of try blocks, with their errors
BlockLines ==
    {<<"t", "r", "y">>,
     <<"o", "n", "_", "e", "r", "r", "o", "r", " ", "s", "k", "i", "p">>,
     <<"o", "n", "_", "e", "r", "r", "o", "r", " ", "s", "o", "r", "t", " ", "b">>,
     <<"o", "n", "_", "e", "r", "r", "o", "r">>,
     <<"d", "r", "o", "p", " ", "b">>,
     <<"b", "o", "g", "u", "s">>,
     <<"p", "r", "i", "n", "t">>}

\* one line for each verb, and lines with other keywords
VerbLines ==
    {<<"s", "o", "u", "r", "c", "e", " ", "\"", "a", ".", "c", "s", "v", "\"">>,
     <<"f", "o", "r", "e", "a", "c", "h", " ", "\"", "*", ".", "c", "s", "v", "\"">>,
     <<"i", "n", "c", "l", "u", "d", "e", " ", "\"", "i", ".", "p", "p", "l", "\"">>,
     <<"f", "i", "l", "t", "e", "r", " ", "a", " ", ">", " ", "1">>,
     <<"w", "h", "e", "r", "e", " ", "a", " ", ">", " ", "1">>,
     <<"s", "e", "l", "e", "c", "t", " ", "a">>,
     <<"d", "r", "o", "p", " ", "b">>,
     <<"l", "i", "m", "i", "t", " ", "1">>,
     <<"d", "i", "s", "t", "i", "n", "c", "t">>,
     <<"s", "a", "m", "p", "l", "e", " ", "1">>,
     <<"s", "o", "r", "t", " ", "b", "y", " ", "a">>,
     <<"r", "e", "n", "a", "m", "e", " ", "b", " ", "c">>,
     <<"a", "d", "d", " ", "c", " ", "=", " ", "a", " ", "+", " ", "b">>,
     <<"t", "r", "i", "m", " ", "a">>,
     <<"u", "p", "p", "e", "r", "c", "a", "s", "e", " ", "a">>,
     <<"l", "o", "w", "e", "r", "c", "a", "s", "e", " ", "a">>,
     <<"c", "a", "s", "t", " ", "a", " ", "i", "n", "t">>,
     <<"r", "e", "p", "l", "a", "c", "e", " ", "a", " ", "1", " ", "3">>,
     <<"p", "i", "v", "o", "t", " ", "i", "n", "d", "e", "x", "=", "a", " ", "c", "o", "l", "u", "m", "n", "=", "b", " ", "v", "a", "l", "u", "e", "=", "b">>,
     <<"g", "r", "o", "u", "p", " ", "b", "y", " ", "a">>,
     <<"c", "o", "u", "n", "t">>,
     <<"s", "u", "m", " ", "b">>,
     <<"a", "v", "g", " ", "b">>,
     <<"m", "i", "n", " ", "b">>,
     <<"m", "a", "x", " ", "b">>,
     <<"a", "g", "g", " ", "s", "u", "m", " ", "b">>,
     <<"j", "o", "i", "n", " ", "\"", "b", ".", "c", "s", "v", "\"", " ", "o", "n", " ", "a">>,
     <<"m", "e", "r", "g", "e", " ", "\"", "b", ".", "c", "s", "v", "\"">>,
     <<"s", "a", "v", "e", " ", "\"", "o", "u", "t", ".", "c", "s", "v", "\"">>,
     <<"p", "r", "i", "n", "t">>,
     <<"s", "c", "h", "e", "m", "a">>,
     <<"i", "n", "s", "p", "e", "c", "t">>,
     <<"h", "e", "a", "d", " ", "1">>,
     <<"l", "o", "g", " ", "h", "i">>,
     <<"t", "i", "m", "e", "r", " ", "s", "t", "a", "r", "t", " ", "x">>,
     <<"a", "s", "s", "e", "r", "t", " ", "a", " ", ">", " ", "0">>,
     <<"f", "i", "l", "l", " ", "b", " ", "0">>,
     <<"s", "e", "t", " ", "t", " ", "=", " ", "1">>,
     <<"e", "n", "v", " ", "e">>,
     <<"t", "r", "y">>,
     <<"o", "n", "_", "e", "r", "r", "o", "r", " ", "s", "k", "i", "p">>,
     <<"p", "a", "r", "s", "e", "_", "d", "a", "t", "e", " ", "a", " ", "\"", "%", "d", "\"">>,
     <<"e", "x", "t", "r", "a", "c", "t", " ", "y", "e", "a", "r", " ", "f", "r", "o", "m", " ", "a", " ", "a", "s", " ", "c">>,
     <<"d", "a", "t", "e", "_", "d", "i", "f", "f", " ", "a", " ", "b", " ", "a", "s", " ", "c", " ", "i", "n", " ", "d", "a", "y", "s">>,
     <<"f", "i", "l", "t", "e", "r", "_", "d", "a", "t", "e", " ", "a", " ", ">", "=", " ", "2", "0", "2", "4", "-", "0", "1", "-", "0", "2">>,
     <<"t", "r", "u", "n", "c", "a", "t", "e", "_", "d", "a", "t", "e", " ", "a", " ", "m", "o", "n", "t", "h">>,
     <<"t", "s", "_", "s", "o", "r", "t", " ", "a">>,
     <<"f", "r", "o", "b", "n", "i", "c", "a", "t", "e", " ", "a">>,
     <<"P", "r", "i", "n", "t">>,
     <<"S", "O", "R", "T", " ", "b", "y", " ", "a">>}

InitParse ==
    /\ commands = {}
    /\ context = PipelineContext(None, <<>>, None)
    /\ fs = Files
    /\ status = "read"
    /\ raised = NoExc
    /\ returned = None
    /\ pc = 0
    /\ chunked = NotChunked
    /\ last = NoResult
    /\ main \in {[NoMain EXCEPT !.lines = lines] :
                    lines \in UNION {[1..n -> BlockLines] : n \in 1..MaxLines}
                              \cup {<<line>> : line \in VerbLines}}

SpecParse == InitParse /\ [][MainParse]_vars


(***************************************************************************)
(* C15.  Syntax errors and the commands of the pipeline.                   *)
(***************************************************************************)
\* no command has been executed: no call was made, the context is the one
\* run_pipeline starts from, nothing was written
NothingExecuted ==
    /\ pc = 0
    /\ last = NoResult
    /\ context = PipelineContext(None, <<>>, None)
    /\ ~Exists(<<"o", "u", "t", ".", "c", "s", "v">>, fs)

\* no table is loaded, no file is written, no variable is set
NoCommandTookEffect ==
    /\ context = PipelineContext(None, <<>>, None)
    /\ ~Exists(<<"o", "u", "t", ".", "c", "s", "v">>, fs)

RECURSIVE Unmatched(_, _, _)
Unmatched(lines, i, open) ==
    IF i > Len(lines) THEN {open[k] : k \in DOMAIN open}
    ELSE IF Token(lines[i]) = "try" THEN Unmatched(lines, i + 1, <<i>> \o open)
    ELSE IF Token(lines[i]) = "on_error"
         THEN (IF open = <<>> THEN {i} \cup Unmatched(lines, i + 1, open)
               ELSE Unmatched(lines, i + 1, Tail(open)))
    ELSE Unmatched(lines, i + 1, open)

\* the command of an on_error line
HandlerOf(line) == Strip(Partition(line, <<" ">>).tail)

\* the lines an error can be about: a command that does not parse on its
\* own, an on_error whose action is missing or does not parse (for a missing
\* action, its try as well), a try or an on_error without its partner
OffendingLines(lines) ==
    {i \in DOMAIN lines :
        \/ i \in Unmatched(lines, 1, <<>>)
        \/ /\ Token(lines[i]) = "try"
           /\ OnErrorLine(lines, i + 1, 1) # 0
           /\ HandlerOf(lines[OnErrorLine(lines, i + 1, 1)]) = <<>>
        \/ /\ Token(lines[i]) = "on_error"
           /\ \/ HandlerOf(lines[i]) = <<>>
              \/ /\ Lower(HandlerOf(lines[i])) # <<"s", "k", "i", "p">>
                 /\ ~StartsWith(Lower(HandlerOf(lines[i])), <<"l", "o", "g", " ">>)
                 /\ Raised(ParseLines(<<HandlerOf(lines[i])>>).exc)
        \/ /\ Token(lines[i]) \notin {"try", "on_error"}
           /\ Raised(ParseLines(<<lines[i]>>).exc)}

\* C16 as stated: every error of parse_lines starts with "Line N:", N being
\* the 1-based index of an offending line in the list given to the top-level
\* call, also when that line lies in a try body or is an on_error handler.
C16_ErrorNamesOffendingLine ==
    status = "exited" =>
        \E n \in OffendingLines(main.lines) :
            main.error.msg[1] = "Line " \o Text(Numeral(n)) \o ":"

\* what does hold: the error of a list without try blocks names its first
\* offending line
C16_FlatErrorNamesOffendingLine ==
    (status = "exited" /\ \A i \in DOMAIN main.lines : Token(main.lines[i]) # "try") =>
        \E n \in OffendingLines(main.lines) :
            /\ main.error.msg[1] = "Line " \o Text(Numeral(n)) \o ":"
            /\ \A k \in OffendingLines(main.lines) : n <= k


(***************************************************************************)
(* C17.  The pairing of try and on_error.                                  *)
(***************************************************************************)
\* the on_error line that brings the depth of the try at line i to 0: the
\* first one up to which the on_error lines after i outnumber the try lines
\* after i; 0 when there is none
Partner(lines, i) ==
    LET Count(j, token) == Cardinality({k \in (i + 1)..j : Token(lines[k]) = token})
        js == {j \in (i + 1)..Len(lines) :
                  /\ Token(lines[j]) = "on_error"
                  /\ Count(j, "on_error") = Count(j, "try") + 1}
    IN  IF js = {} THEN 0 ELSE CHOOSE j \in js : \A k \in js : j <= k

\* the nodes of a well-nested list, block by block
RECURSIVE Blocks(_)
Blocks(lines) ==
    IF lines = <<>> THEN <<>>
    ELSE IF Token(lines[1]) # "try" THEN ParseLines(<<lines[1]>>).nodes \o Blocks(Tail(lines))
    ELSE LET j == Partner(lines, 1)
             action == HandlerOf(lines[j])
         IN  <<[cls |-> "TryNode",
                body |-> Blocks(SubSeq(lines, 2, j - 1)),
                on_error_nodes |->
                    IF Lower(action) = <<"s", "k", "i", "p">>
                         \/ StartsWith(Lower(action), <<"l", "o", "g", " ">>)
                    THEN <<>>
                    ELSE ParseLines(<<action>>).nodes,
                error_action |-> action]>>
             \o Blocks(SubSeq(lines, j + 1, Len(lines)))

\* C17: a well-nested list whose lines parse is parsed, and into its blocks:
\* the lines strictly between a try and the on_error that brings its depth
\* to 0 are the body of its TryNode, inner blocks being TryNodes of that
\* body, and the nodes of the lines after that on_error follow the TryNode;
\* a list with a try that no on_error matches fails with a SyntaxError.
C17_TryPairsWithMatchingOnError ==
    status # "read" =>
        /\ OffendingLines(main.lines) = {} => status = "running"
        /\ status = "running" => main.nodes.v = Blocks(main.lines)
        /\ (\E i \in DOMAIN main.lines :
               Token(main.lines[i]) = "try" /\ Partner(main.lines, i) = 0)
           => status = "exited" /\ main.error.cls = "SyntaxError"

\* a parsed list with a block in a block and a command after them
C17_Witness ==
    /\ status = "running"
    /\ Len(main.lines) = 5
    /\ Len(main.nodes.v) = 2
    /\ main.nodes.v[1].cls = "TryNode"
    /\ Len(main.nodes.v[1].body) = 1
    /\ main.nodes.v[1].body[1].cls = "TryNode"
    /\ main.nodes.v[1].body[1].body = <<>>
    /\ main.nodes.v[2].cls = "PrintNode"


(***************************************************************************)
(* C18.  The keywords the parser accepts.                                  *)
(***************************************************************************)
\* the verbs of the language
Verbs ==
    {"source", "foreach", "include", "filter", "where", "select", "drop", "limit",
     "distinct", "sample", "sort", "rename", "add", "trim", "uppercase", "lowercase",
     "cast", "replace", "pivot", "group", "count", "sum", "avg", "min", "max", "agg",
     "join", "merge", "save", "print", "schema", "inspect", "head", "log", "timer",
     "assert", "fill", "set", "env", "try", "on_error", "parse_date", "extract",
     "date_diff", "filter_date", "truncate_date", "ts_sort"}

\* a list of one line that is a command on its own
OneCommand ==
    /\ status # "read"
    /\ Len(main.lines) = 1
    /\ main.lines[1] \in VerbLines
    /\ Token(main.lines[1]) \notin {"try", "on_error"}

\* C18 as stated: a line with well-formed arguments is accepted exactly when
\* its lowercased keyword is one of the verbs; a line with any other keyword
\* fails with a SyntaxError that lists every verb.
C18_AcceptsExactlyTheVerbs ==
    OneCommand =>
        /\ status = "running" <=> Token(main.lines[1]) \in Verbs
        /\ status = "exited" =>
              /\ main.error.cls = "SyntaxError"
              /\ \A verb \in Verbs : \E k \in DOMAIN main.error.msg : main.error.msg[k] = verb

\* what does hold: a line with well-formed arguments is accepted exactly when
\* its lowercased keyword is a key of _PARSERS or _NO_ARG_NODES, and the
\* error of any other keyword lists those keys and "try"
C18_AcceptsExactlyTheParsersKeys ==
    OneCommand =>
        /\ status = "running" <=> Token(main.lines[1]) \in Parsers \cup DOMAIN NoArgNodes
        /\ status = "exited" =>
              /\ main.error.cls = "SyntaxError"
              /\ \A key \in Parsers \cup DOMAIN NoArgNodes \cup {"try"} :
                    \E k \in DOMAIN main.error.msg : main.error.msg[k] = key


(***************************************************************************)
(* C19.  References to variables that are not set.                         *)
(***************************************************************************)
\* the texts of a command in which $NAME references are resolved
ReferenceTexts(node) ==
    CASE node.cls \in {"SourceNode", "JoinNode", "MergeNode", "SaveNode", "IncludeNode"} ->
             {node.file_path}
      [] node.cls = "ForeachNode" -> {node.pattern}
      [] node.cls \in {"FilterNode", "AssertNode"} -> {node.value}
      [] node.cls = "AddIfNode" -> {node.cond_val}
      [] node.cls = "AddNode" -> {node.expression}
      [] node.cls = "LogNode" -> {node.message}
      [] OTHER -> {}

\* text holds a reference $NAME to a name that c.variables does not hold
RefersToUnset(text, c) ==
    \E i \in DOMAIN text :
        /\ text[i] = "$"
        /\ WordRun(SubSeq(text, i + 1, Len(text))) # <<>>
        /\ WordRun(SubSeq(text, i + 1, Len(text))) \notin DOMAIN c.variables

\* the calls of commands that hold a reference to an unset variable, made
\* with a table loaded where the command works on the table
UnsetReferenceCalls ==
    {r \in Calls(last) :
        /\ \E text \in ReferenceTexts(r.node) : RefersToUnset(text, r.pre)
        /\ r.node.cls \in {"FilterNode", "AssertNode", "AddIfNode", "AddNode", "JoinNode",
                           "MergeNode", "SaveNode"} => ~NoTable(r.pre)}

\* C19 as stated: a command with a reference to a variable that no earlier
\* set or env has set fails with a KeyError, in file paths, in the right-hand
\* side of filter, assert and add-if, in add expressions and in log messages.
C19_UnsetReferenceIsKeyError ==
    \A r \in UnsetReferenceCalls : r.exc.cls = "KeyError"

\* what does hold: every such command fails, with a KeyError except for add,
\* whose error is a ValueError, and leaves the context and the files as they
\* were
C19_UnsetReferenceFails ==
    \A r \in UnsetReferenceCalls :
        /\ r.exc.cls = IF r.node.cls = "AddNode" THEN "ValueError" ELSE "KeyError"
        /\ r.ctx = r.pre


(***************************************************************************)
(* C20.  What set stores.                                                  *)
(***************************************************************************)
\* a value without its outer pair of quotes, if it has one
OuterPairRemoved(value) ==
    IF Len(value) >= 2 /\ value[1] \in Quotes /\ value[Len(value)] = value[1]
    THEN SubSeq(value, 2, Len(value) - 1)
    ELSE value

SetCalls == {r \in Calls(last) : r.node.cls = "SetNode"}
\* the calls of log "at $t" made with t set
LogCalls ==
    {r \in Calls(last) :
        /\ r.node.cls = "LogNode"
        /\ r.node.message = <<"\"", "a", "t", " ", "$", "t", "\"">>
        /\ <<"t">> \in DOMAIN r.pre.variables}

\* C20 as stated: after set NAME = VALUE the variables map NAME to VALUE
\* without exactly its outer pair of quotes and every other name to what it
\* held; sandbox_dir becomes that value when NAME is sandbox and is
\* unchanged for any other NAME; a later $NAME resolves to the value of the
\* last set or env of NAME.
C20_SetStoresValueWithoutOuterPair ==
    /\ \A r \in SetCalls :
          /\ ~Raised(r.exc)
          /\ r.ctx.variables =
                 Put(r.pre.variables, r.node.name, Str(OuterPairRemoved(r.node.value)))
          /\ r.ctx.sandbox_dir = IF r.node.name = Sandbox
                                 THEN Some(OuterPairRemoved(r.node.value))
                                 ELSE r.pre.sandbox_dir
    /\ \A r \in LogCalls :
          r.out = << <<"[LOG]", <<"a", "t", " ">> \o r.pre.variables[<<"t">>].s>> >>

\* what does hold: the value stored is VALUE without any of the quote
\* characters it starts and ends with
C20_SetStoresValueWithoutQuotes ==
    /\ \A r \in SetCalls :
          /\ ~Raised(r.exc)
          /\ r.ctx.variables =
                 Put(r.pre.variables, r.node.name, Str(StripChars(r.node.value, Quotes)))
          /\ r.ctx.sandbox_dir = IF r.node.name = Sandbox
                                 THEN Some(StripChars(r.node.value, Quotes))
                                 ELSE r.pre.sandbox_dir
    /\ \A r \in LogCalls :
          r.out = << <<"[LOG]", <<"a", "t", " ">> \o r.pre.variables[<<"t">>].s>> >>


(***************************************************************************)
(* C21.  agg and the pending grouping.                                     *)
(***************************************************************************)
\* the calls of agg on a context with a table
MultiAggCalls == {r \in NodeCalls : r.node.cls = "MultiAggNode" /\ ~NoTable(r.pre)}

\* C21: an agg executed on a loaded table while no grouping is pending fails
\* with a RuntimeError and leaves the table and the rest of the context as
\* they were; an agg that succeeds was executed with a grouping pending.
C21_AggRequiresPendingGrouping ==
    \A r \in MultiAggCalls :
        /\ NoGrouping(r.pre) => /\ r.exc.cls = "RuntimeError"
                                /\ r.ctx = r.pre
        /\ ~Raised(r.exc) => r.pre.group_by_cols \notin {Absent, None}

\* an agg ran right after the source, without a group by, and failed
C21_Witness ==
    /\ last.node.cls = "MultiAggNode"
    /\ last.pre.lf # None /\ last.pre.lf # Absent
    /\ last.pre.group_by_cols = None
    /\ last.exc.cls = "RuntimeError"
    /\ context = last.pre
    /\ status = "raised"

\* an agg ran with a grouping pending and succeeded
C21_GroupedAggSucceeds ==
    /\ last.node.cls = "MultiAggNode"
    /\ last.pre.group_by_cols = Some(<<A>>)
    /\ ~Raised(last.exc)


(***************************************************************************)
(* C22.  group by.                                                         *)
(***************************************************************************)
GroupByCalls ==
    {r \in NodeCalls : r.node.cls = "GroupByNode" /\ ~NoTable(r.pre) /\ Resolves(r.pre.lf.v)}

\* C22: a group by whose columns are all columns of the table succeeds,
\* sets the pending grouping to its column list and changes nothing else:
\* the table keeps its rows, its columns and their order; a group by that
\* names a column the table does not have fails with a KeyError and changes
\* nothing.
C22_GroupBySetsGroupingOnly ==
    \A r \in GroupByCalls :
        IF \A i \in DOMAIN r.node.columns : r.node.columns[i] \in Schema(r.pre.lf.v)
        THEN /\ ~Raised(r.exc)
             /\ r.ctx.group_by_cols = Some(r.node.columns)
             /\ r.ctx.lf = r.pre.lf
             /\ r.ctx = [r.pre EXCEPT !.group_by_cols = Some(r.node.columns)]
        ELSE /\ r.exc.cls = "KeyError"
             /\ r.ctx = r.pre

\* a group by a ran on the loaded table of two columns and several rows
C22_Witness ==
    /\ last.node.cls = "GroupByNode"
    /\ last.node.columns = <<A>>
    /\ ~Raised(last.exc)
    /\ last.pre.lf.v.cols = <<A, B>>
    /\ Len(last.pre.lf.v.rows) >= 2
    /\ context.group_by_cols = Some(<<A>>)
    /\ context.lf = last.pre.lf

\* a group by z failed on a table without a column z
C22_UnknownColumnReached ==
    /\ last.node.cls = "GroupByNode"
    /\ last.node.columns = <<Z>>
    /\ ~NoTable(last.pre)
    /\ last.exc.cls = "KeyError"


(***************************************************************************)
(* C23.  The commands that only show the table.                            *)
(***************************************************************************)
ShowingClasses == {"PrintNode", "SchemaNode", "InspectNode", "HeadNode", "CountIfNode"}
ShowingCalls == {r \in NodeCalls : r.node.cls \in ShowingClasses}

\* C23: print, schema, inspect, head and count if are read-only: whether
\* the call succeeds or fails, the table of the context after it is the
\* table before it, with the same rows, columns and order, and so is the
\* rest of the context; a call that succeeds prints.
C23_ShowingCommandsAreReadOnly ==
    \A r \in ShowingCalls :
        /\ r.ctx.lf = r.pre.lf
        /\ r.ctx = r.pre
        /\ ~Raised(r.exc) => ~NoTable(r.pre) /\ Len(r.out) = 1 /\ r.io = <<>>

\* a head 1 showed one row of a table of several rows and the table kept
\* them all
C23_Witness ==
    /\ last.node.cls = "HeadNode"
    /\ ~Raised(last.exc)
    /\ Len(last.pre.lf.v.rows) >= 2
    /\ Len(last.out[1][2]) = 1
    /\ context.lf = last.pre.lf


(***************************************************************************)
(* C24.  The timer protocol.                                               *)
(***************************************************************************)
TimerKey(label) == TimerPrefix \o label
TimerKeys(c) == {k \in DOMAIN c.variables : StartsWith(k, TimerPrefix)}

\* what one call does to the timers
TimerCallsFollowProtocol ==
    \A r \in NodeCalls :
        IF r.node.cls # "TimerNode"
        THEN \* no other command starts or stops a timer
             /\ TimerKeys(r.ctx) = TimerKeys(r.pre)
             /\ \A k \in TimerKeys(r.pre) : r.ctx.variables[k] = r.pre.variables[k]
        ELSE LET key == TimerKey(r.node.label)
                 running == key \in DOMAIN r.pre.variables
             IN  /\ r.node.action = "start"
                    => /\ ~Raised(r.exc)
                       /\ r.ctx = [r.pre EXCEPT !.variables = Put(r.pre.variables, key, Float)]
                 /\ r.node.action = "lap" /\ running
                    => /\ ~Raised(r.exc)
                       /\ r.ctx = r.pre
                       /\ r.out = << <<"[LAP]", r.node.label>> >>
                 /\ r.node.action = "stop" /\ running
                    => /\ ~Raised(r.exc)
                       /\ r.ctx = [r.pre EXCEPT !.variables = Del(r.pre.variables, key)]
                       /\ key \notin DOMAIN r.ctx.variables
                       /\ r.out = << <<"[TIMER]", r.node.label>> >>
                 /\ r.node.action \in {"lap", "stop"} /\ ~running
                    => /\ r.exc.cls = "RuntimeError"
                       /\ r.ctx = r.pre

\* a step of the executor that calls a timer command right after another
\* timer command on the same label
TimerAfterTimer ==
    /\ pc' = pc + 1
    /\ last.node.cls = "TimerNode"
    /\ last'.node.cls = "TimerNode"
    /\ last'.node.label = last.node.label
    /\ ~Raised(last.exc)

\* C24: timer start L stores an entry under __timer_L; lap on a started L
\* reports and keeps the entry, so that a lap or stop after a start or a lap
\* succeeds; stop reports and removes the entry, so that a lap or stop after
\* a stop fails; lap and stop on a label with no entry fail with a
\* RuntimeError and change nothing; no other command touches the entries.
C24_TimerProtocol ==
    [][/\ TimerCallsFollowProtocol'
       /\ TimerAfterTimer /\ last'.node.action \in {"lap", "stop"}
          => IF last.node.action \in {"start", "lap"}
             THEN ~Raised(last'.exc)
             ELSE last'.exc.cls = "RuntimeError" /\ context' = context]_vars

\* start, lap and stop of x have run in this order: the stop found the entry
\* and removed it
C24_Witness ==
    /\ pc = 3
    /\ last.node = [cls |-> "TimerNode", action |-> "stop", label |-> <<"x">>]
    /\ ~Raised(last.exc)
    /\ TimerKey(<<"x">>) \in DOMAIN last.pre.variables
    /\ TimerKeys(context) = {}
    /\ status = "running"


(***************************************************************************)
(* C25.  Compound filters are evaluated from left to right.                *)
(***************************************************************************)
CompoundFilterCalls ==
    {r \in NodeCalls : r.node.cls = "CompoundFilterNode" /\ ~NoTable(r.pre)}

\* what condition i of a call says of a row
ConditionHolds(r, row, i) ==
    LET cond == r.node.conditions[i]
    IN  Compare(Cell(r.pre.lf.v, row, cond.column), cond.operator,
                CoerceRhs(ResolveValue(cond.value, r.pre).s).n)

\* (((c1 l1 c2) l2 c3) ...) from condition i on, acc being the value so far
RECURSIVE LeftToRight(_, _, _, _)
LeftToRight(r, row, acc, i) ==
    IF i > Len(r.node.conditions) THEN acc
    ELSE LeftToRight(r, row,
                     IF r.node.logic[i - 1] = "and"
                     THEN acc /\ ConditionHolds(r, row, i)
                     ELSE acc \/ ConditionHolds(r, row, i),
                     i + 1)

CompoundFilterTexts ==
    {<<"a", " ", "=", "=", " ", "1", " ", "o", "r", " ", "a", " ", "=", "=", " ", "2", " ", "a", "n", "d", " ", "b", " ", ">", " ", "1">>,
     <<"a", " ", "=", "=", " ", "2", " ", "a", "n", "d", " ", "b", " ", ">", " ", "1", " ", "o", "r", " ", "a", " ", "=", "=", " ", "1">>,
     <<"a", " ", "=", "=", " ", "1", " ", "A", "N", "D", " ", "b", " ", ">", " ", "1">>}

\* _parse_filter of each text, as line 1
ParsedCompoundFilters == [text \in CompoundFilterTexts |-> ParseFilter(text, 1)]

\* C25: a compound filter that succeeds keeps exactly the rows, in their
\* order, for which (((c1 l1 c2) l2 c3) ...) holds, `and` and `or` taken
\* strictly from left to right; the parser gives one connective less than
\* conditions, and filter a == 1 or a == 2 and b > 1 parses to the node that
\* means (a == 1 or a == 2) and b > 1.
C25_CompoundFilterLeftToRight ==
    /\ \A r \in CompoundFilterCalls :
          /\ Len(r.node.logic) = Len(r.node.conditions) - 1
          /\ ~Raised(r.exc)
             => r.ctx = Rebind(r.pre,
                    [r.pre.lf.v EXCEPT !.rows = SelectSeq(r.pre.lf.v.rows,
                        LAMBDA row : LeftToRight(r, row, ConditionHolds(r, row, 1), 2))])
    /\ \A text \in CompoundFilterTexts :
          /\ ~Raised(ParsedCompoundFilters[text].exc)
          /\ ParsedCompoundFilters[text].node.cls = "CompoundFilterNode"
          /\ Len(ParsedCompoundFilters[text].node.logic)
                = Len(ParsedCompoundFilters[text].node.conditions) - 1
    /\ FilterOrAnd \in {ParsedCompoundFilters[text].node : text \in CompoundFilterTexts}

\* a == 1 or a == 2 and b > 1 on the rows (1, 2), (1, 1), (2, null): the row
\* (1, 1), which a == 1 or (a == 2 and b > 1) would keep, is dropped
C25_Witness ==
    /\ last.node = FilterOrAnd
    /\ last.pre.lf = Some(TableA)
    /\ ~Raised(last.exc)
    /\ context.lf.v.rows = <<<<1, 2>>>>
    /\ CompoundMaskAndFirst(TableA, <<1, 1>>, FilterOrAnd.conditions, FilterOrAnd.logic, 3)


(***************************************************************************)
(* C26.  The table agg produces.                                           *)
(***************************************************************************)
\* the result column of a spec
SpecColumn(spec) == IF spec.verb = "count" THEN <<"c", "o", "u", "n", "t">> ELSE spec.col.v

\* calls of agg with a grouping pending on columns of a table polars can
\* resolve, and specs that name columns of that table
WellFormedAggCalls ==
    {r \in NodeCalls :
        /\ r.node.cls = "MultiAggNode"
        /\ ~NoTable(r.pre)
        /\ ~NoGrouping(r.pre)
        /\ Resolves(r.pre.lf.v)
        /\ r.node.specs # <<>>
        /\ \A i \in DOMAIN r.node.specs :
              r.node.specs[i].verb # "count"
                 => /\ r.node.specs[i].col # None
                    /\ r.node.specs[i].col.v \in Schema(r.pre.lf.v)}

\* the keys of the groups of a table
KeysOfGroups(t, G) == {[i \in 1..Len(G) |-> Cell(t, t.rows[j], G[i])] : j \in 1..Len(t.rows)}

\* the call gave a table of |G| + k columns, the group columns and one per
\* spec, with one row per group
GroupsAndOneColumnPerSpec(r) ==
    LET G == r.pre.group_by_cols.v
        t == r.ctx.lf.v
    IN  /\ ~Raised(r.exc)
        /\ r.ctx.lf \notin {Absent, None}
        /\ Resolves(t)
        /\ t.cols = G \o [i \in 1..Len(r.node.specs) |-> SpecColumn(r.node.specs[i])]
        /\ Len(t.cols) = Len(G) + Len(r.node.specs)
        /\ Len(t.rows) = Cardinality(KeysOfGroups(r.pre.lf.v, G))
        /\ \A k \in KeysOfGroups(r.pre.lf.v, G) :
              \E j \in 1..Len(t.rows) : SubSeq(t.rows[j], 1, Len(G)) = k

\* C26: with a grouping pending on G, agg with specs s1..sk gives a table
\* with one row per distinct group and exactly |G| + k columns, the group
\* columns and one result column per spec, also when two specs aggregate the
\* same column.
C26_AggGivesGroupColumnsAndOnePerSpec ==
    \A r \in WellFormedAggCalls : GroupsAndOneColumnPerSpec(r)

\* the same for the calls whose result columns have names that differ from
\* each other and from the group columns
C26_AggWithDistinctResultNames ==
    \A r \in WellFormedAggCalls :
        Resolves([cols |-> r.pre.group_by_cols.v
                              \o [i \in 1..Len(r.node.specs) |-> SpecColumn(r.node.specs[i])]])
           => GroupsAndOneColumnPerSpec(r)

\* agg sum b, count after group by a has given its table
C26_DistinctNamesReached ==
    ~(/\ last.node = AggSumCount
      /\ last \in WellFormedAggCalls
      /\ ~Raised(last.exc)
      /\ Len(context.lf.v.cols) = 3)

\* the result of agg sum b, max b is read by print
C26_SameColumnResultRead ==
    ~(/\ last.node.cls = "PrintNode"
      /\ last.exc.cls = "DuplicateError"
      /\ ~Resolves(last.pre.lf.v))


(***************************************************************************)
(* C27.  A Try inside the body of a Try.                                   *)
(***************************************************************************)
\* the body of the Try failed, and its handler ran without failing
HandledWithoutFailing(r) ==
    /\ r.node.cls = "TryNode"
    /\ Failed(r.body)
    /\ r.invoked = 1
    /\ ~Failed(r.handler)
    /\ Len(r.handler) = Len(r.node.on_error_nodes)
    /\ StartsWith(Lower(StripChars(r.node.error_action, Spaces)), <<"l", "o", "g", " ">>)
          => r.out # <<>> /\ r.out[Len(r.out)][1] = "[TRY]"

\* C27: when a body command of an inner Try fails and the inner handler
\* handles it without failing, the inner Try ends without an error, the outer
\* body goes on with the command after the inner Try, started from what the
\* inner Try left, and the outer handler is invoked only if a later command
\* of the outer body fails.
C27_NestedTryIsolation ==
    \A o \in TryCalls : \A i \in 1..Len(o.body) :
        HandledWithoutFailing(o.body[i])
        => /\ ~Raised(o.body[i].exc)
           /\ i < Len(o.node.body)
              => /\ Len(o.body) > i
                 /\ o.body[i + 1].node = o.node.body[i + 1]
                 /\ o.body[i + 1].pre = o.body[i].ctx
           /\ o.invoked = 1 => Len(o.body) > i /\ Failed(o.body)
           /\ ~Failed(o.body) => o.invoked = 0 /\ o.handler = <<>> /\ Len(o.body) = Len(o.node.body)

\* try / try / filter z / on_error drop b / filter a > 1 / on_error select b:
\* filter z failed, drop b handled it, filter a > 1 ran on the table without
\* b, and select b was not run
C27_Witness ==
    /\ last.node.cls = "TryNode"
    /\ Len(last.body) = 2
    /\ HandledWithoutFailing(last.body[1])
    /\ last.body[1].handler[1].node.cls = "DropNode"
    /\ last.body[2].node = FilterA
    /\ ~Raised(last.body[2].exc)
    /\ last.invoked = 0
    /\ last.handler = <<>>
    /\ context.lf.v.cols = <<A>>

\* a command after the handled inner Try fails: the outer handler is invoked
C27_LaterFailureReached ==
    ~(/\ last.node.cls = "TryNode"
      /\ Len(last.body) = 2
      /\ HandledWithoutFailing(last.body[1])
      /\ Raised(last.body[2].exc)
      /\ last.invoked = 1)


(***************************************************************************)
(* C28.  Commands that do not rebind the table keep the pending grouping.  *)
(***************************************************************************)
NonRebindingClasses ==
    {"PrintNode", "SchemaNode", "InspectNode", "HeadNode", "SaveNode", "AssertNode",
     "CountIfNode", "LogNode", "TimerNode", "SetNode", "EnvNode"}

NonRebindingCalls == {r \in NodeCalls : r.node.cls \in NonRebindingClasses}

\* C28: print, schema, inspect, head, save, assert, count if, log, timer, set
\* and env, succeeding or failing, leave the pending grouping and the table
\* as they found them, so that a grouping set by group by is still pending
\* after any number of them.
C28_NonRebindingKeepsGrouping ==
    \A r \in NonRebindingCalls :
        /\ r.ctx.group_by_cols = r.pre.group_by_cols
        /\ r.ctx.lf = r.pre.lf

\* source, group by a, print: the grouping on a is pending after print
C28_Witness ==
    /\ pc = 3
    /\ last.node.cls = "PrintNode"
    /\ ~Raised(last.exc)
    /\ last.pre.group_by_cols = Some(<<A>>)
    /\ context.group_by_cols = Some(<<A>>)

\* a count as fourth command finds the grouping and gives the count of each
\* group
C28_GroupedCountReached ==
    ~(/\ pc = 4
      /\ last.node.cls = "CountNode"
      /\ last.pre.group_by_cols = Some(<<A>>)
      /\ context.lf.v.cols = <<A, <<"c", "o", "u", "n", "t">>>>
      /\ Len(context.lf.v.rows) = 2
      /\ context.group_by_cols = None)


(***************************************************************************)
(* C29.  The split of a chunked run into its two phases.                   *)
(***************************************************************************)
\* the commands after the source, once main has parsed them
RemainingNodes == Tail(main.nodes.v)

\* chunk_phase is the longest prefix of chunk-safe commands of the list
ChunkPhaseIsLongestSafePrefix ==
    chunked.source_node # None
    => LET k == Len(chunked.chunk_phase)
       IN  /\ k <= Len(RemainingNodes)
           /\ chunked.chunk_phase = SubSeq(RemainingNodes, 1, k)
           /\ \A i \in 1..k : RemainingNodes[i].cls \in ChunkSafeNodeNames
           /\ k < Len(RemainingNodes) => RemainingNodes[k + 1].cls \notin ChunkSafeNodeNames

\* a call made while the chunks are processed is a call of a command of the
\* prefix, on the context of a chunk
ChunkCallsArePrefixCalls ==
    status = "chunks" /\ last' # last
    => /\ \E i \in 1..Len(chunked.chunk_phase) : last'.node = chunked.chunk_phase[i]
       /\ last'.pre.variables = context.variables
       /\ context' = context

\* a call made after the concatenation is the call of the next command of
\* the list, behind the prefix, on the context of the run
PostCallsFollowTheList ==
    status = "post" /\ last' # last
    => /\ pc' = pc + 1
       /\ pc' > 1 + Len(chunked.chunk_phase)
       /\ last'.node = main.nodes.v[pc']
       /\ last'.pre = context

\* C29: in a chunked run the per-chunk phase is exactly the longest prefix
\* of chunk-safe commands after the source; the first command that is not
\* chunk-safe and every command after it, chunk-safe or not, are run in the
\* post phase, one after the other in the order of the list.
C29_ChunkPhaseIsLongestSafePrefix ==
    [][/\ ChunkPhaseIsLongestSafePrefix'
       /\ ChunkCallsArePrefixCalls
       /\ PostCallsFollowTheList]_vars

\* source "a.csv" chunk 2 / set t = 1 / drop b: the prefix is empty, and
\* drop b is called in the post phase, third, after set
C29_Witness ==
    /\ chunked.source_node # None
    /\ Len(main.nodes.v) = 3
    /\ main.nodes.v[2].cls = "SetNode"
    /\ main.nodes.v[3].cls = "DropNode"
    /\ chunked.chunk_phase = <<>>
    /\ chunked.chunks = <<>>
    /\ pc = 3
    /\ last.node = main.nodes.v[3]
    /\ <<"t">> \in DOMAIN context.variables

\* source "a.csv" chunk 2 / drop b / set t = 1: drop b is the prefix and is
\* called on the first chunk
C29_PrefixReached ==
    ~(/\ chunked.source_node # None
      /\ Len(main.nodes.v) = 3
      /\ chunked.chunk_phase = <<main.nodes.v[2]>>
      /\ main.nodes.v[3].cls = "SetNode"
      /\ last.node = main.nodes.v[2])


(***************************************************************************)
(* C30.  A failed precondition check leaves the context as it was.         *)
(***************************************************************************)
\* the checks a command makes before it acts, by the error they raise
\* (AttributeError is what the test of context.lf raises on a context that
\* was built without it)
PreconditionErrors ==
    {"RuntimeError", "KeyError", "FileNotFoundError", "PermissionError", "AttributeError"}

PreconditionFailures ==
    {r \in NodeCalls : Raised(r.exc) /\ r.exc.cls \in PreconditionErrors}

\* C30: a command that fails a precondition check (no table loaded, a
\* column, variable, join key or file missing, agg without a grouping, a
\* path outside the sandbox) leaves the table, the pending grouping, the
\* variables and sandbox_dir as they were before the command; outside the
\* per-chunk phase, where a command is given the context of a chunk, the
\* context of the run stays the one the command was given.
C30_FailedCheckLeavesContext ==
    /\ \A r \in PreconditionFailures :
          /\ r.ctx.lf = r.pre.lf
          /\ r.ctx.group_by_cols = r.pre.group_by_cols
          /\ r.ctx.variables = r.pre.variables
          /\ r.ctx.sandbox_dir = r.pre.sandbox_dir
          /\ r.ctx = r.pre
    /\ last \in PreconditionFailures /\ chunked.chunks = <<>> => context = last.pre

\* source, group by a, then select z: the select fails with KeyError and
\* the table and the grouping on a are what they were
C30_Witness ==
    /\ pc = 3
    /\ last.node.cls = "SelectNode"
    /\ last.exc.cls = "KeyError"
    /\ last.pre.lf = Some(TableA)
    /\ last.pre.group_by_cols = Some(<<A>>)
    /\ context.lf = Some(TableA)
    /\ context.group_by_cols = Some(<<A>>)
    /\ status = "raised"

\* the same for every call that fails, whatever the error
C30_EveryFailureLeavesContext ==
    \A r \in NodeCalls : Raised(r.exc) => r.ctx = r.pre

====
